---- MODULE Spec2Model ----
(***************************************************************************)
(* A model of the streaming decoders of soe-llms: the SSE frame reader     *)
(* (utils/sse.rs) and the response streams of the six providers (xai,      *)
(* mistral, publicai, anthropic, google, openai).                          *)
(*                                                                         *)
(* Strings that the code concatenates or parses (text, tool arguments) are *)
(* sequences of characters; identifiers and names are atoms, "" being the  *)
(* empty String.  Option<T> is a sequence of length at most one: None is   *)
(* <<>>, Some(x) is <<x>>.                                                   *)
(***************************************************************************)
EXTENDS Integers, Sequences, FiniteSets, TLC

VARIABLES codec, stream, returned, llms, requested, conversation, sent,
          other

vars == <<codec, stream, returned, llms, requested, conversation, sent,
          other>>

\* Longest transport (number of read_line outcomes before end of stream).
MaxWire == 3

\* Most next() calls a caller makes on one stream.
MaxCalls == 5

None == <<>>

Some(x) == <<x>>

EmptyString == <<>>

\* The sequences over S of length at most n.
SeqUpTo(S, n) == UNION {[1..k -> S] : k \in 0..n}

RECURSIVE Concat(_)
\* The concatenation of a sequence of strings.
Concat(ss) == IF ss = <<>> THEN <<>> ELSE Head(ss) \o Concat(Tail(ss))

-----------------------------------------------------------------------------
(* serde_json::from_str::<Value> on an argument string.  The characters of *)
(* the model's JSON: "{" and "}", "q" (a key with its colon), "s" (a       *)
(* string literal), " " (white space).  A Value is a tree: <<"s">> for a   *)
(* string, <<"o">> for the empty object, <<"o", v>> for {"q": v}.          *)

RECURSIVE SkipWs(_, _)
SkipWs(s, i) == IF i <= Len(s) /\ s[i] = " " THEN SkipWs(s, i + 1) ELSE i

JsonFail == [ok |-> FALSE]

RECURSIVE ParseValue(_, _)
ParseValue(s, i) ==
    LET j == SkipWs(s, i) IN
    IF j > Len(s) THEN JsonFail
    ELSE IF s[j] = "s" THEN [ok |-> TRUE, v |-> <<"s">>, next |-> j + 1]
    ELSE IF s[j] = "{" THEN
        LET k == SkipWs(s, j + 1) IN
        IF k > Len(s) THEN JsonFail
        ELSE IF s[k] = "}" THEN [ok |-> TRUE, v |-> <<"o">>, next |-> k + 1]
        ELSE IF s[k] = "q" THEN
            LET r == ParseValue(s, k + 1) IN
            IF ~r.ok THEN JsonFail
            ELSE LET m == SkipWs(s, r.next) IN
                 IF m <= Len(s) /\ s[m] = "}"
                 THEN [ok |-> TRUE, v |-> <<"o", r.v>>, next |-> m + 1]
                 ELSE JsonFail
        ELSE JsonFail
    ELSE JsonFail

\* Ok(value) or Err: trailing characters after the value are an error.
from_str(s) ==
    LET r == ParseValue(s, 1) IN
    IF r.ok /\ SkipWs(s, r.next) > Len(s)
    THEN [ok |-> TRUE, v |-> r.v]
    ELSE JsonFail

-----------------------------------------------------------------------------
(* The values next() returns.                                              *)

TextDelta(content) == [type |-> "TextDelta", content |-> content]

Completed(output) == [type |-> "Completed", output |-> output]

OutputText(content) == [type |-> "Text", content |-> content]

OutputToolCall(id, name, input, context) ==
    [type |-> "ToolCall", id |-> id, name |-> name, input |-> input,
     context |-> context]

\* LlmsError::Io, LlmsError::Reqwest, LlmsError::Json
ErrIo == [type |-> "Err", kind |-> "Io"]

ErrReqwest == [type |-> "Err", kind |-> "Reqwest"]

ErrJson == [type |-> "Err", kind |-> "Json"]

\* StatusCode::OK
StatusOk == 200

\* StatusCode::INTERNAL_SERVER_ERROR
StatusInternalServerError == 500

\* LlmsError::Response { status, body }: body is the sequence of the pieces
\* that format! puts together (the fixed text, then the arguments), the
\* text of the serde_json error left out.
ErrResponse(status, body) ==
    [type |-> "Err", kind |-> "Response", status |-> status, body |-> body]

\* next() returned None.
EndOfStream == [type |-> "None"]

\* The call did not return: the thread panicked.
Panic == [type |-> "Panic"]

-----------------------------------------------------------------------------
(* utils/sse.rs: SseResponse.  `wire` is what read_line yields, one entry  *)
(* per call, before the physical end of the stream; `pos` counts the       *)
(* entries read; `line` is whether the line buffer is still there.         *)

Line(data, body) == [k |-> "line", data |-> data, body |-> body]

\* A line that does not start with "data:" (comment, blank, event: ...).
OtherLine == Line(FALSE, [p |-> "none"])

\* data: [DONE]
DoneLine == Line(TRUE, [p |-> "done"])

\* A data: line whose payload does not deserialize as the expected type.
BadLine == Line(TRUE, [p |-> "malformed"])

\* A data: line whose payload deserializes to `value`.
DataLine(value) == Line(TRUE, [p |-> "json", v |-> value])

\* read_line fails: an io::Error of another kind, or one of kind Other that
\* wraps the reqwest::Error of the body stream.
IoFailure == [k |-> "io"]

ReqwestFailure == [k |-> "reqwest"]

\* SseError::Io, SseError::Reqwest, SseError::Json
SseError(kind) == [type |-> "SseError", kind |-> kind]

\* LlmsErrorFromSse as if the error went through the error type of the
\* provider first (impl From<SseError> for XAiError, then for LlmsError):
\* Reqwest stays, the others become an invalid-response error.
LlmsErrorFromSseViaProvider(e) ==
    IF e.kind = "Reqwest" THEN ErrReqwest
    ELSE [type |-> "Err", kind |-> "Response", status |-> StatusOk,
          body |-> <<e.kind>>]

\* impl From<SseError> for LlmsError
LlmsErrorFromSse(e) ==
    CASE e.kind = "Io" -> ErrIo
      [] e.kind = "Reqwest" -> ErrReqwest
      [] e.kind = "Json" -> ErrJson

SseNew(wire) == [wire |-> wire, pos |-> 0, line |-> TRUE]

RECURSIVE SseReadNoSkip(_, _)
\* SseRead with a line that does not start with "data:" handed to the
\* deserializer instead of skipped.
SseReadNoSkip(sse, p) ==
    IF p >= Len(sse.wire)
    THEN [sse |-> [sse EXCEPT !.pos = Len(sse.wire), !.line = FALSE],
          res |-> None]
    ELSE LET o == sse.wire[p + 1]
             read == [sse EXCEPT !.pos = p + 1]
         IN  IF o.k = "io" THEN [sse |-> read, res |-> Some(SseError("Io"))]
             ELSE IF o.k = "reqwest"
             THEN [sse |-> read, res |-> Some(SseError("Reqwest"))]
             ELSE IF ~o.data THEN [sse |-> read, res |-> Some(SseError("Json"))]
             ELSE IF o.body.p = "done" THEN [sse |-> read, res |-> None]
             ELSE IF o.body.p = "malformed"
             THEN [sse |-> read, res |-> Some(SseError("Json"))]
             ELSE [sse |-> read, res |-> Some([type |-> "Ok", v |-> o.body.v])]

RECURSIVE SseRead(_, _)
\* The loop of SseResponse::next from position p, and what follows it.
SseRead(sse, p) ==
    IF p >= Len(sse.wire)
    THEN [sse |-> [sse EXCEPT !.pos = Len(sse.wire), !.line = FALSE],
          res |-> None]
    ELSE LET o == sse.wire[p + 1]
             read == [sse EXCEPT !.pos = p + 1]
         IN  IF o.k = "io" THEN [sse |-> read, res |-> Some(SseError("Io"))]
             ELSE IF o.k = "reqwest"
             THEN [sse |-> read, res |-> Some(SseError("Reqwest"))]
             ELSE IF ~o.data THEN SseRead(sse, p + 1)
             ELSE IF o.body.p = "done" THEN [sse |-> read, res |-> None]
             ELSE IF o.body.p = "malformed"
             THEN [sse |-> read, res |-> Some(SseError("Json"))]
             ELSE [sse |-> read, res |-> Some([type |-> "Ok", v |-> o.body.v])]

\* SseResponse::next: None once the line buffer is gone.
SseNext(sse) ==
    IF ~sse.line THEN [sse |-> sse, res |-> None] ELSE SseRead(sse, sse.pos)

-----------------------------------------------------------------------------
(* The Chat-Completions decoders: xai/mod.rs, mistral/mod.rs and           *)
(* publicai/mod.rs hold the same ResponseStream; mistral's delta content   *)
(* is a DeltaContent instead of a String.                                  *)

Chunk(choices) == [choices |-> choices]

ChunkChoice(content, tool_calls) ==
    [delta |-> [content |-> content, tool_calls |-> tool_calls]]

ToolCallDelta(index, id, function) ==
    [index |-> index, id |-> id, function |-> function]

ToolCallFunctionDelta(name, arguments) ==
    [name |-> name, arguments |-> arguments]

\* mistral: DeltaContent::Text, DeltaContent::Blocks and its ContentBlocks
DeltaContentText(str) == [t |-> "Text", s |-> str]

DeltaContentBlocks(blocks) == [t |-> "Blocks", blocks |-> blocks]

ContentBlockText(text) == [type |-> "text", text |-> text]

ContentBlockThinking(text) == [type |-> "thinking", text |-> text]

RECURSIVE BlocksText(_)
\* The filter_map(..).collect() of into_text: the text blocks, concatenated.
BlocksText(blocks) ==
    IF blocks = <<>> THEN EmptyString
    ELSE (IF Head(blocks).type = "text" THEN Head(blocks).text
          ELSE EmptyString) \o BlocksText(Tail(blocks))

\* into_text with the text of every block collected, thinking included.
into_text_all(content) ==
    LET text == IF content.t = "Text" THEN content.s
                ELSE Concat([k \in 1..Len(content.blocks) |->
                               content.blocks[k].text])
    IN  IF text # EmptyString THEN Some(text) ELSE None

\* mistral: DeltaContent::into_text
into_text(content) ==
    LET text == IF content.t = "Text" THEN content.s
                ELSE BlocksText(content.blocks)
    IN  IF text # EmptyString THEN Some(text) ELSE None

\* DeltaText without the is_empty filter: an empty content is text too.
DeltaTextUnfiltered(c, content) ==
    IF content = None THEN None
    ELSE IF c = "mistral"
    THEN Some(IF content[1].t = "Text" THEN content[1].s
              ELSE BlocksText(content[1].blocks))
    ELSE content

\* The text a delta's content gives: content.filter(|t| !t.is_empty()) in
\* xai and publicai, content.and_then(DeltaContent::into_text) in mistral.
DeltaText(c, content) ==
    IF content = None THEN None
    ELSE IF c = "mistral" THEN into_text(content[1])
    ELSE IF content[1] # EmptyString THEN content ELSE None

\* DefaultAccumulator with the arguments of an empty object.
DefaultAccumulatorObject ==
    [id |-> "", name |-> "", arguments |-> <<"{", "}">>]

\* ToolCallAccumulator::default()
DefaultAccumulator == [id |-> "", name |-> "", arguments |-> EmptyString]

\* Vec::resize_with(new_len, Default::default)
resize_with(v, new_len) ==
    IF new_len > Len(v)
    THEN v \o [i \in 1..(new_len - Len(v)) |-> DefaultAccumulator]
    ELSE SubSeq(v, 1, new_len)

\* ApplyToolCallDelta with the fragment assigned to the argument buffer in
\* place of push_str.
ApplyToolCallDeltaAssign(tool_calls, delta) ==
    LET v == resize_with(tool_calls, delta.index + 1)
        acc == v[delta.index + 1]
        acc1 == IF delta.id # None THEN [acc EXCEPT !.id = delta.id[1]]
                ELSE acc
        func == delta.function
        acc2 == IF func # None /\ func[1].name # None
                THEN [acc1 EXCEPT !.name = func[1].name[1]] ELSE acc1
        acc3 == IF func # None /\ func[1].arguments # None
                THEN [acc2 EXCEPT !.arguments = func[1].arguments[1]]
                ELSE acc2
    IN  [v EXCEPT ![delta.index + 1] = acc3]

\* The body of `for delta in tc_deltas` for one delta.
ApplyToolCallDelta(tool_calls, delta) ==
    LET v == resize_with(tool_calls, delta.index + 1)
        acc == v[delta.index + 1]
        acc1 == IF delta.id # None THEN [acc EXCEPT !.id = delta.id[1]]
                ELSE acc
        func == delta.function
        acc2 == IF func # None /\ func[1].name # None
                THEN [acc1 EXCEPT !.name = func[1].name[1]] ELSE acc1
        acc3 == IF func # None /\ func[1].arguments # None
                THEN [acc2 EXCEPT !.arguments = @ \o func[1].arguments[1]]
                ELSE acc2
    IN  [v EXCEPT ![delta.index + 1] = acc3]

RECURSIVE ApplyToolCallDeltas(_, _)
ApplyToolCallDeltas(tool_calls, deltas) ==
    IF deltas = <<>> THEN tool_calls
    ELSE ApplyToolCallDeltas(ApplyToolCallDelta(tool_calls, Head(deltas)),
                             Tail(deltas))

RECURSIVE ChatToolOutputs(_)
\* The drain loop of build_response: the outputs of the slots, or the error
\* of the first slot whose arguments do not parse.
ChatToolOutputs(tool_calls) ==
    IF tool_calls = <<>> THEN [ok |-> TRUE, output |-> <<>>]
    ELSE LET tc == Head(tool_calls)
             input == from_str(tc.arguments)
         IN  IF ~input.ok
             THEN [ok |-> FALSE,
                   err |-> ErrResponse(
                             StatusOk,
                             <<"invalid tool call arguments JSON for",
                               tc.name>>)]
             ELSE LET rest == ChatToolOutputs(Tail(tool_calls)) IN
                  IF ~rest.ok THEN rest
                  ELSE [ok |-> TRUE,
                        output |-> <<OutputToolCall(tc.id, tc.name, input.v,
                                                    None)>> \o rest.output]

\* ChatBuildResponse without the output.is_empty() check.
ChatBuildResponseUnchecked(s) ==
    LET text == IF s.text # None THEN <<OutputText(s.text[1])>> ELSE <<>>
        tools == ChatToolOutputs(s.tool_calls)
        taken == [s EXCEPT !.text = None, !.tool_calls = <<>>]
    IN  IF ~tools.ok THEN [s |-> taken, res |-> tools.err]
        ELSE [s |-> taken, res |-> Completed(text \o tools.output)]

\* ChatBuildResponse with the text pushed after the tool calls.
ChatBuildResponseTextLast(s) ==
    LET text == IF s.text # None THEN <<OutputText(s.text[1])>> ELSE <<>>
        tools == ChatToolOutputs(s.tool_calls)
        taken == [s EXCEPT !.text = None, !.tool_calls = <<>>]
    IN  IF ~tools.ok THEN [s |-> taken, res |-> tools.err]
        ELSE IF text \o tools.output = <<>>
        THEN [s |-> taken,
              res |-> ErrResponse(StatusOk, <<"no output in response">>)]
        ELSE [s |-> taken, res |-> Completed(tools.output \o text)]

\* ResponseStream::build_response followed by .map(Completed) and
\* .map_err(Into::into): text.take() and drain(..) empty the accumulators.
ChatBuildResponse(s) ==
    LET text == IF s.text # None THEN <<OutputText(s.text[1])>> ELSE <<>>
        tools == ChatToolOutputs(s.tool_calls)
        taken == [s EXCEPT !.text = None, !.tool_calls = <<>>]
    IN  IF ~tools.ok THEN [s |-> taken, res |-> tools.err]
        ELSE IF text \o tools.output = <<>>
        THEN [s |-> taken,
              res |-> ErrResponse(StatusOk, <<"no output in response">>)]
        ELSE [s |-> taken, res |-> Completed(text \o tools.output)]

ChatNew(wire) ==
    [inner |-> SseNew(wire), text |-> None, tool_calls |-> <<>>,
     done |-> FALSE]

RECURSIVE ChatLoop(_, _)
\* The loop of ResponseStream::next.
ChatLoop(c, s) ==
    LET r == SseNext(s.inner)
        s1 == [s EXCEPT !.inner = r.sse]
    IN  IF r.res = None THEN ChatBuildResponse([s1 EXCEPT !.done = TRUE])
        ELSE IF r.res[1].type = "SseError"
        THEN [s |-> s1, res |-> LlmsErrorFromSse(r.res[1])]
        ELSE LET chunk == r.res[1].v IN
             IF chunk.choices = <<>> THEN ChatLoop(c, s1)
             ELSE LET choice == Head(chunk.choices)
                      s2 == IF choice.delta.tool_calls # None
                            THEN [s1 EXCEPT !.tool_calls =
                                    ApplyToolCallDeltas(@,
                                        choice.delta.tool_calls[1])]
                            ELSE s1
                      text == DeltaText(c, choice.delta.content)
                  IN  IF text # None
                      THEN [s |-> [s2 EXCEPT !.text =
                                     Some((IF @ = None THEN EmptyString
                                           ELSE @[1]) \o text[1])],
                            res |-> TextDelta(text[1])]
                      ELSE ChatLoop(c, s2)

\* ChatNext without the check of the done flag.
ChatNextNoDone(c, s) == ChatLoop(c, s)

\* impl LlmResponseStream for ResponseStream: next
ChatNext(c, s) ==
    IF s.done THEN [s |-> s, res |-> EndOfStream] ELSE ChatLoop(c, s)

-----------------------------------------------------------------------------
(* anthropic/mod.rs                                                        *)

ContentBlockStart(index, content_block) ==
    [type |-> "content_block_start", index |-> index,
     content_block |-> content_block]

StartText(text) == [type |-> "text", text |-> text]

StartToolUse(id, name) == [type |-> "tool_use", id |-> id, name |-> name]

ContentBlockDelta(index, delta) ==
    [type |-> "content_block_delta", index |-> index, delta |-> delta]

ContentTextDelta(text) == [type |-> "text_delta", text |-> text]

InputJsonDelta(partial_json) ==
    [type |-> "input_json_delta", partial_json |-> partial_json]

ContentBlockStop(index) == [type |-> "content_block_stop", index |-> index]

MessageStop == [type |-> "message_stop"]

Ping == [type |-> "ping"]

EventError(error_type, message) ==
    [type |-> "error",
     error |-> [error_type |-> error_type, message |-> message]]

\* BlockAccumulator::Text, BlockAccumulator::ToolUse
AccText(text) == [type |-> "Text", text |-> text]

AccToolUse(id, name, input_json) ==
    [type |-> "ToolUse", id |-> id, name |-> name, input_json |-> input_json]

RECURSIVE AnthropicOutputs(_)
\* The drain loop of build_response.
AnthropicOutputs(blocks) ==
    IF blocks = <<>> THEN [ok |-> TRUE, output |-> <<>>]
    ELSE LET block == Head(blocks) IN
         IF block.type = "Text"
         THEN LET rest == AnthropicOutputs(Tail(blocks)) IN
              IF ~rest.ok THEN rest
              ELSE [ok |-> TRUE,
                    output |-> (IF block.text # EmptyString
                                THEN <<OutputText(block.text)>> ELSE <<>>)
                               \o rest.output]
         ELSE LET input == from_str(block.input_json) IN
              IF ~input.ok
              THEN [ok |-> FALSE,
                    err |-> ErrResponse(StatusOk,
                                        <<"invalid tool input JSON for",
                                          block.name>>)]
              ELSE LET rest == AnthropicOutputs(Tail(blocks)) IN
                   IF ~rest.ok THEN rest
                   ELSE [ok |-> TRUE,
                         output |-> <<OutputToolCall(block.id, block.name,
                                                     input.v, None)>>
                                    \o rest.output]

\* AnthropicBuildResponse with an empty output made the "no output" error,
\* as in the Chat-Completions decoders.
AnthropicBuildResponseNoEmpty(s) ==
    LET out == AnthropicOutputs(s.blocks)
        drained == [s EXCEPT !.blocks = <<>>]
    IN  IF ~out.ok THEN [s |-> drained, res |-> out.err]
        ELSE IF out.output = <<>>
        THEN [s |-> drained,
              res |-> ErrResponse(StatusOk, <<"no output in response">>)]
        ELSE [s |-> drained, res |-> Completed(out.output)]

\* ResponseStream::build_response with .map(Completed).map_err(Into::into)
AnthropicBuildResponse(s) ==
    LET out == AnthropicOutputs(s.blocks)
        drained == [s EXCEPT !.blocks = <<>>]
    IN  IF ~out.ok THEN [s |-> drained, res |-> out.err]
        ELSE [s |-> drained, res |-> Completed(out.output)]

AnthropicNew(wire) == [inner |-> SseNew(wire), blocks |-> <<>>, done |-> FALSE]

\* AnthropicStartBlock with the text of a text block's start left out.
AnthropicStartBlockEmpty(content_block) ==
    IF content_block.type = "text" THEN AccText(EmptyString)
    ELSE AccToolUse(content_block.id, content_block.name, EmptyString)

\* The ContentBlockStart arm: the accumulator pushed.
AnthropicStartBlock(content_block) ==
    IF content_block.type = "text" THEN AccText(content_block.text)
    ELSE AccToolUse(content_block.id, content_block.name, EmptyString)

RECURSIVE AnthropicLoopNoAppend(_)
\* AnthropicLoop with a text delta returned as an event but not appended
\* to the buffer of its block.
AnthropicLoopNoAppend(s) ==
    LET r == SseNext(s.inner)
        s1 == [s EXCEPT !.inner = r.sse]
    IN  IF r.res = None THEN [s |-> s1, res |-> EndOfStream]
        ELSE IF r.res[1].type = "SseError"
        THEN [s |-> s1, res |-> LlmsErrorFromSse(r.res[1])]
        ELSE LET ev == r.res[1].v IN
             CASE ev.type = "content_block_start" ->
                    AnthropicLoopNoAppend([s1 EXCEPT !.blocks =
                        Append(@, AnthropicStartBlock(ev.content_block))])
               [] ev.type = "content_block_delta" ->
                    IF ev.index >= Len(s1.blocks)
                    THEN [s |-> s1, res |-> Panic]
                    ELSE LET acc == s1.blocks[ev.index + 1] IN
                         IF ev.delta.type = "text_delta" /\ acc.type = "Text"
                         THEN [s |-> s1, res |-> TextDelta(ev.delta.text)]
                         ELSE IF ev.delta.type = "input_json_delta"
                                 /\ acc.type = "ToolUse"
                         THEN AnthropicLoopNoAppend(
                                [s1 EXCEPT !.blocks[ev.index + 1].input_json =
                                   @ \o ev.delta.partial_json])
                         ELSE [s |-> s1, res |-> Panic]
               [] ev.type = "message_stop" ->
                    AnthropicBuildResponse([s1 EXCEPT !.done = TRUE])
               [] ev.type = "error" ->
                    [s |-> [s1 EXCEPT !.done = TRUE],
                     res |-> ErrResponse(StatusOk,
                                         <<ev.error.error_type,
                                           ev.error.message>>)]
               [] OTHER -> AnthropicLoopNoAppend(s1)

RECURSIVE AnthropicLoopStopCloses(_)
\* AnthropicLoop with content_block_stop closing the block started last:
\* the block is taken off the list.
AnthropicLoopStopCloses(s) ==
    LET r == SseNext(s.inner)
        s1 == [s EXCEPT !.inner = r.sse]
    IN  IF r.res = None THEN [s |-> s1, res |-> EndOfStream]
        ELSE IF r.res[1].type = "SseError"
        THEN [s |-> s1, res |-> LlmsErrorFromSse(r.res[1])]
        ELSE LET ev == r.res[1].v IN
             CASE ev.type = "content_block_start" ->
                    AnthropicLoopStopCloses([s1 EXCEPT !.blocks =
                        Append(@, AnthropicStartBlock(ev.content_block))])
               [] ev.type = "content_block_delta" ->
                    IF ev.index >= Len(s1.blocks)
                    THEN [s |-> s1, res |-> Panic]
                    ELSE LET acc == s1.blocks[ev.index + 1] IN
                         IF ev.delta.type = "text_delta" /\ acc.type = "Text"
                         THEN [s |-> [s1 EXCEPT !.blocks[ev.index + 1].text =
                                        @ \o ev.delta.text],
                               res |-> TextDelta(ev.delta.text)]
                         ELSE IF ev.delta.type = "input_json_delta"
                                 /\ acc.type = "ToolUse"
                         THEN AnthropicLoopStopCloses(
                                [s1 EXCEPT !.blocks[ev.index + 1].input_json =
                                   @ \o ev.delta.partial_json])
                         ELSE [s |-> s1, res |-> Panic]
               [] ev.type = "message_stop" ->
                    AnthropicBuildResponse([s1 EXCEPT !.done = TRUE])
               [] ev.type = "error" ->
                    [s |-> [s1 EXCEPT !.done = TRUE],
                     res |-> ErrResponse(StatusOk,
                                         <<ev.error.error_type,
                                           ev.error.message>>)]
               [] ev.type = "content_block_stop" ->
                    AnthropicLoopStopCloses([s1 EXCEPT !.blocks =
                        SubSeq(@, 1, Len(@) - (IF @ = <<>> THEN 0 ELSE 1))])
               [] OTHER -> AnthropicLoopStopCloses(s1)

RECURSIVE AnthropicLoop(_)
\* The loop of ResponseStream::next.
AnthropicLoop(s) ==
    LET r == SseNext(s.inner)
        s1 == [s EXCEPT !.inner = r.sse]
    IN  IF r.res = None THEN [s |-> s1, res |-> EndOfStream]
        ELSE IF r.res[1].type = "SseError"
        THEN [s |-> s1, res |-> LlmsErrorFromSse(r.res[1])]
        ELSE LET ev == r.res[1].v IN
             CASE ev.type = "content_block_start" ->
                    AnthropicLoop([s1 EXCEPT !.blocks =
                        Append(@, AnthropicStartBlock(ev.content_block))])
               [] ev.type = "content_block_delta" ->
                    IF ev.index >= Len(s1.blocks)
                    THEN [s |-> s1, res |-> Panic]
                    ELSE LET acc == s1.blocks[ev.index + 1] IN
                         IF ev.delta.type = "text_delta" /\ acc.type = "Text"
                         THEN [s |-> [s1 EXCEPT !.blocks[ev.index + 1].text =
                                        @ \o ev.delta.text],
                               res |-> TextDelta(ev.delta.text)]
                         ELSE IF ev.delta.type = "input_json_delta"
                                 /\ acc.type = "ToolUse"
                         THEN AnthropicLoop(
                                [s1 EXCEPT !.blocks[ev.index + 1].input_json =
                                   @ \o ev.delta.partial_json])
                         ELSE [s |-> s1, res |-> Panic]
               [] ev.type = "message_stop" ->
                    AnthropicBuildResponse([s1 EXCEPT !.done = TRUE])
               [] ev.type = "error" ->
                    [s |-> [s1 EXCEPT !.done = TRUE],
                     res |-> ErrResponse(StatusOk,
                                         <<ev.error.error_type,
                                           ev.error.message>>)]
               [] OTHER -> AnthropicLoop(s1)

\* impl LlmResponseStream for ResponseStream: next
AnthropicNext(s) ==
    IF s.done THEN [s |-> s, res |-> EndOfStream] ELSE AnthropicLoop(s)

-----------------------------------------------------------------------------
(* google/mod.rs                                                           *)

StreamChunk(candidates, error) ==
    [candidates |-> candidates, error |-> error]

Candidate(content) == [content |-> content]

\* A candidate as sent with a finishReason.  Candidate declares the field
\* content only, so deserialization drops the finishReason and the decoder
\* reads the content.
CandidateFinished(content, finish_reason) ==
    [content |-> content, finish_reason |-> finish_reason]

CandidateContent(parts) == [parts |-> parts]

PartText(text) == [t |-> "Text", text |-> text]

PartFunctionCall(name, args, thought_signature) ==
    [t |-> "FunctionCall", function_call |-> [name |-> name, args |-> args],
     thought_signature |-> thought_signature]

ApiErrorBody(code, message) == [code |-> code, message |-> message]

\* StatusCode::from_u16(code as u16).unwrap_or(INTERNAL_SERVER_ERROR)
GoogleStatus(code) ==
    LET c == code % 65536 IN
    IF c >= 100 /\ c <= 999 THEN c ELSE StatusInternalServerError

\* GoogleBuildResponse without the output.is_empty() check.
GoogleBuildResponseUnchecked(s) ==
    LET output == (IF s.text_acc # None THEN <<OutputText(s.text_acc[1])>>
                   ELSE <<>>) \o s.tool_calls
        taken == [s EXCEPT !.text_acc = None, !.tool_calls = <<>>]
    IN  [s |-> taken, res |-> Completed(output)]

\* ResponseStream::build_response with .map(Completed).map_err(Into::into)
GoogleBuildResponse(s) ==
    LET output == (IF s.text_acc # None THEN <<OutputText(s.text_acc[1])>>
                   ELSE <<>>) \o s.tool_calls
        taken == [s EXCEPT !.text_acc = None, !.tool_calls = <<>>]
    IN  IF output = <<>>
        THEN [s |-> taken,
              res |-> ErrResponse(StatusOk, <<"no output in response">>)]
        ELSE [s |-> taken, res |-> Completed(output)]

GoogleNew(wire) ==
    [inner |-> SseNew(wire), text_acc |-> None, tool_calls |-> <<>>,
     done |-> FALSE]

RECURSIVE GoogleParts(_, _)
\* The `for part in content.parts` loop on acc = [text_acc, tool_calls,
\* text_delta].
GoogleParts(acc, parts) ==
    IF parts = <<>> THEN acc
    ELSE LET part == Head(parts) IN
         IF part.t = "Text"
         THEN IF part.text # EmptyString
              THEN GoogleParts(
                     [acc EXCEPT
                        !.text_acc = Some((IF @ = None THEN EmptyString
                                           ELSE @[1]) \o part.text),
                        !.text_delta = Some((IF @ = None THEN EmptyString
                                             ELSE @[1]) \o part.text)],
                     Tail(parts))
              ELSE GoogleParts(acc, Tail(parts))
         ELSE GoogleParts(
                [acc EXCEPT !.tool_calls =
                   Append(@, OutputToolCall(part.function_call.name,
                                            part.function_call.name,
                                            part.function_call.args,
                                            part.thought_signature))],
                Tail(parts))

RECURSIVE GoogleLoop(_)
\* The loop of ResponseStream::next.
GoogleLoop(s) ==
    LET r == SseNext(s.inner)
        s1 == [s EXCEPT !.inner = r.sse]
    IN  IF r.res = None THEN GoogleBuildResponse([s1 EXCEPT !.done = TRUE])
        ELSE IF r.res[1].type = "SseError"
        THEN [s |-> s1, res |-> LlmsErrorFromSse(r.res[1])]
        ELSE LET chunk == r.res[1].v IN
             IF chunk.error # None
             THEN [s |-> [s1 EXCEPT !.done = TRUE],
                   res |-> ErrResponse(
                             GoogleStatus(IF chunk.error[1].code = None THEN 0
                                          ELSE chunk.error[1].code[1]),
                             <<chunk.error[1].message>>)]
             ELSE IF chunk.candidates = <<>> THEN GoogleLoop(s1)
             ELSE LET candidate == Head(chunk.candidates)
                      acc == GoogleParts(
                               [text_acc |-> s1.text_acc,
                                tool_calls |-> s1.tool_calls,
                                text_delta |-> None],
                               IF candidate.content = None THEN <<>>
                               ELSE candidate.content[1].parts)
                      s2 == [s1 EXCEPT !.text_acc = acc.text_acc,
                                       !.tool_calls = acc.tool_calls]
                  IN  IF acc.text_delta # None
                      THEN [s |-> s2, res |-> TextDelta(acc.text_delta[1])]
                      ELSE GoogleLoop(s2)

\* impl LlmResponseStream for ResponseStream: next
GoogleNext(s) ==
    IF s.done THEN [s |-> s, res |-> EndOfStream] ELSE GoogleLoop(s)

-----------------------------------------------------------------------------
(* openai/mod.rs                                                           *)

ResponseOutputTextDelta(delta) ==
    [type |-> "response.output_text.delta", delta |-> delta]

ResponseCompleted(output, status) ==
    [type |-> "response.completed",
     response |-> [output |-> output, status |-> status]]

ResponseCreated(output, status) ==
    [type |-> "response.created",
     response |-> [output |-> output, status |-> status]]

ResponseError(code, message) ==
    [type |-> "error", code |-> code, message |-> message]

OutputMessage(status, content) ==
    [type |-> "message", status |-> status, content |-> content]

ReasoningItem == [type |-> "reasoning"]

FunctionCall(call_id, name, arguments, status) ==
    [type |-> "function_call", call_id |-> call_id, name |-> name,
     arguments |-> arguments, status |-> status]

\* OutputMessageContent::OutputText, ::Refusal, ::ReasoningText
ContentOutputText(text) == [type |-> "output_text", text |-> text]

ContentRefusal(refusal) == [type |-> "refusal", text |-> refusal]

ContentReasoningText(text) == [type |-> "reasoning_text", text |-> text]

\* MessageText with the first sub-part of the content only.
MessageTextFirst(content) ==
    IF content = <<>> THEN EmptyString
    ELSE IF Head(content).type \in {"output_text", "refusal"}
    THEN Head(content).text ELSE EmptyString

RECURSIVE MessageText(_)
\* The filter_map(..).collect() over a message's content.
MessageText(content) ==
    IF content = <<>> THEN EmptyString
    ELSE (IF Head(content).type \in {"output_text", "refusal"}
          THEN Head(content).text ELSE EmptyString)
         \o MessageText(Tail(content))

\* The ToolCall literal of the FunctionCall arm names no context field;
\* the value is modelled with context None, as in the other decoders.
\* impl TryFrom<OutputItem> for Option<llms::Output>: Ok(Some(output)),
\* Ok(None), Err(error), or a failed assert!.
OutputFromItem(item) ==
    CASE item.type = "message" ->
           IF item.status # "completed" THEN [r |-> "panic"]
           ELSE [r |-> "ok",
                 output |-> Some(OutputText(MessageText(item.content)))]
      [] item.type = "reasoning" -> [r |-> "ok", output |-> None]
      [] item.type = "function_call" ->
           IF item.status # Some("completed") THEN [r |-> "panic"]
           ELSE LET input == from_str(item.arguments) IN
                IF ~input.ok
                THEN [r |-> "err",
                      err |-> ErrResponse(
                                StatusOk,
                                <<"failed to parse function call arguments">>)]
                ELSE [r |-> "ok",
                      output |-> Some(OutputToolCall(item.call_id, item.name,
                                                     input.v, None))]

RECURSIVE OutputsFromItems(_)
\* into_iter().filter_map(..).collect::<Result<_, _>>(): the items are
\* converted in order up to the first error.
OutputsFromItems(items) ==
    IF items = <<>> THEN [r |-> "ok", output |-> <<>>]
    ELSE LET first == OutputFromItem(Head(items)) IN
         IF first.r # "ok" THEN first
         ELSE LET rest == OutputsFromItems(Tail(items)) IN
              IF rest.r # "ok" THEN rest
              ELSE [r |-> "ok", output |-> first.output \o rest.output]

\* ResponseFromOpenAi without the check of the top-level status.
ResponseFromOpenAiUnchecked(resp) == OutputsFromItems(resp.output)

\* impl TryFrom<Response> for llms::Response
ResponseFromOpenAi(resp) ==
    IF resp.status # "completed"
    THEN [r |-> "err",
          err |-> ErrResponse(StatusOk,
                              <<"response status is not completed",
                                resp.status>>)]
    ELSE OutputsFromItems(resp.output)

OpenAiNew(wire) == [inner |-> SseNew(wire)]

RECURSIVE OpenAiLoopChecked(_)
\* OpenAiLoop with the text of the completed payload held against the
\* deltas forwarded before it.
OpenAiLoopChecked(s) ==
    LET r == SseNext(s.inner)
        s1 == [s EXCEPT !.inner = r.sse]
    IN  IF r.res = None THEN [s |-> s1, res |-> EndOfStream]
        ELSE IF r.res[1].type = "SseError"
        THEN [s |-> s1, res |-> LlmsErrorFromSse(r.res[1])]
        ELSE LET ev == r.res[1].v IN
             CASE ev.type = "response.output_text.delta" ->
                    [s |-> s1, res |-> TextDelta(ev.delta)]
               [] ev.type = "response.completed" ->
                    LET resp == ResponseFromOpenAi(ev.response)
                        read == SelectSeq(
                                  SubSeq(s.inner.wire, 1, s.inner.pos),
                                  LAMBDA o :
                                    /\ o.k = "line" /\ o.data
                                    /\ o.body.p = "json"
                                    /\ o.body.v.type =
                                           "response.output_text.delta")
                        deltas == Concat([k \in 1..Len(read) |->
                                            read[k].body.v.delta])
                        texts == IF resp.r # "ok" THEN <<>>
                                 ELSE SelectSeq(resp.output,
                                                LAMBDA o : o.type = "Text")
                        text == Concat([k \in 1..Len(texts) |->
                                          texts[k].content])
                    IN  [s |-> s1,
                         res |-> CASE resp.r = "ok" ->
                                        IF text = deltas
                                        THEN Completed(resp.output)
                                        ELSE ErrResponse(StatusOk,
                                                         <<"text mismatch">>)
                                   [] resp.r = "err" -> resp.err
                                   [] resp.r = "panic" -> Panic]
               [] ev.type = "error" ->
                    [s |-> s1,
                     res |-> ErrResponse(StatusOk,
                                         ev.code \o <<ev.message>>)]
               [] OTHER -> OpenAiLoopChecked(s1)

RECURSIVE OpenAiLoop(_)
\* The loop of impl LlmResponseStream for ResponseStream: next
OpenAiLoop(s) ==
    LET r == SseNext(s.inner)
        s1 == [s EXCEPT !.inner = r.sse]
    IN  IF r.res = None THEN [s |-> s1, res |-> EndOfStream]
        ELSE IF r.res[1].type = "SseError"
        THEN [s |-> s1, res |-> LlmsErrorFromSse(r.res[1])]
        ELSE LET ev == r.res[1].v IN
             CASE ev.type = "response.output_text.delta" ->
                    [s |-> s1, res |-> TextDelta(ev.delta)]
               [] ev.type = "response.completed" ->
                    LET resp == ResponseFromOpenAi(ev.response) IN
                    [s |-> s1,
                     res |-> CASE resp.r = "ok" -> Completed(resp.output)
                               [] resp.r = "err" -> resp.err
                               [] resp.r = "panic" -> Panic]
               [] ev.type = "error" ->
                    [s |-> s1,
                     res |-> ErrResponse(StatusOk,
                                         ev.code \o <<ev.message>>)]
               [] OTHER -> OpenAiLoop(s1)

OpenAiNext(s) == OpenAiLoop(s)

-----------------------------------------------------------------------------
(* The transports the streams are run on.                                  *)

\* What read_line can yield for any codec besides a payload of its type.
CommonWire == {OtherLine, DoneLine, BadLine, IoFailure, ReqwestFailure}

\* A chunk with one tool-call delta and no content.
ToolChunk(index, id, name, arguments) ==
    Chunk(<<ChunkChoice(None,
              Some(<<ToolCallDelta(index, id,
                       Some(ToolCallFunctionDelta(name, arguments)))>>))>>)

\* The tool-call chunks: the first delta of slot 0 (without and with a
\* first fragment), two fragments for slot 0, the whole of slot 1.
ToolChunks ==
    {ToolChunk(0, Some("abc"), Some("lookup"), None),
     ToolChunk(0, Some("abc"), Some("lookup"), Some(<<"{", "q">>)),
     ToolChunk(0, None, None, Some(<<"{", "q">>)),
     ToolChunk(0, None, None, Some(<<"s", " ", "}">>)),
     ToolChunk(1, Some("def"), Some("calc"), Some(<<"{", "}">>))}

\* A chunk whose one choice carries a tool-call delta and text.
ToolTextChunk(index, id, name, arguments, content) ==
    Chunk(<<ChunkChoice(Some(content),
              Some(<<ToolCallDelta(index, id,
                       Some(ToolCallFunctionDelta(name, arguments)))>>))>>)

\* Chunks of xai and publicai: content is a String.
StringChunks ==
    {Chunk(<<>>),
     Chunk(<<ChunkChoice(Some(<<"a">>), None)>>),
     Chunk(<<ChunkChoice(Some(<<"b">>), None)>>),
     Chunk(<<ChunkChoice(Some(EmptyString), None)>>),
     ToolTextChunk(1, Some("def"), Some("calc"), Some(<<"{", "}">>), <<"a">>),
     ToolTextChunk(0, None, None, Some(<<"{", "}">>), <<"b">>)}

\* Chunks of mistral: content is a DeltaContent.
MistralChunks ==
    {Chunk(<<>>),
     Chunk(<<ChunkChoice(Some(DeltaContentText(<<"a">>)), None)>>),
     Chunk(<<ChunkChoice(Some(DeltaContentText(EmptyString)), None)>>),
     Chunk(<<ChunkChoice(Some(DeltaContentBlocks(
              <<ContentBlockThinking(<<"t">>), ContentBlockText(<<"b">>)>>)),
            None)>>),
     Chunk(<<ChunkChoice(Some(DeltaContentBlocks(
              <<ContentBlockThinking(<<"t">>)>>)), None)>>),
     ToolTextChunk(1, Some("def"), Some("calc"), Some(<<"{", "}">>),
                   DeltaContentText(<<"a">>)),
     ToolTextChunk(0, None, None, Some(<<"{", "}">>),
                   DeltaContentText(<<"b">>))}

AnthropicEvents ==
    {ContentBlockStart(0, StartText(EmptyString)),
     ContentBlockStart(0, StartText(<<"x">>)),
     ContentBlockStart(1, StartToolUse("tu", "lookup")),
     ContentBlockDelta(0, ContentTextDelta(<<"a">>)),
     ContentBlockDelta(1, ContentTextDelta(<<"b">>)),
     ContentBlockDelta(0, InputJsonDelta(<<"{">>)),
     ContentBlockDelta(0, InputJsonDelta(<<"}">>)),
     ContentBlockStop(0),
     MessageStop,
     EventError("overloaded_error", "Overloaded")}

GoogleChunks ==
    {StreamChunk(<<>>, None),
     StreamChunk(<<Candidate(Some(CandidateContent(<<PartText(<<"a">>)>>)))>>,
                 None),
     StreamChunk(<<Candidate(Some(CandidateContent(
                    <<PartText(<<"b">>), PartText(EmptyString),
                      PartText(<<"c">>)>>)))>>, None),
     StreamChunk(<<Candidate(Some(CandidateContent(
                    <<PartFunctionCall("lookup", <<"o">>, Some("sig"))>>)))>>,
                 None),
     StreamChunk(<<Candidate(None)>>, None),
     StreamChunk(<<CandidateFinished(
                    Some(CandidateContent(<<PartText(<<"a">>)>>)), "STOP")>>,
                 None),
     StreamChunk(<<>>, Some(ApiErrorBody(Some(429), "quota")))}

OpenAiEvents ==
    {ResponseOutputTextDelta(<<"a">>),
     ResponseOutputTextDelta(<<"b">>),
     ResponseCreated(<<>>, "in_progress"),
     ResponseCompleted(
        <<OutputMessage("completed", <<ContentOutputText(<<"a", "b">>)>>)>>,
        "completed"),
     ResponseCompleted(
        <<ReasoningItem,
          FunctionCall("c1", "lookup", <<"{", "}">>, Some("completed"))>>,
        "completed"),
     ResponseCompleted(
        <<FunctionCall("c1", "lookup", <<"{">>, Some("completed"))>>,
        "completed"),
     ResponseCompleted(<<>>, "failed"),
     ResponseCompleted(
        <<OutputMessage("in_progress", <<ContentOutputText(<<"a">>)>>)>>,
        "completed"),
     ResponseCompleted(
        <<FunctionCall("c1", "lookup", <<"{", "}">>, None)>>, "completed"),
     ResponseCompleted(
        <<OutputMessage("completed", <<ContentOutputText(<<"a">>)>>)>>,
        "incomplete"),
     ResponseCompleted(<<ReasoningItem>>, "completed"),
     ResponseCompleted(
        <<FunctionCall("c1", "lookup", <<"{", "}">>, Some("completed")),
          OutputMessage("completed",
                        <<ContentOutputText(<<"a">>),
                          ContentReasoningText(<<"t">>),
                          ContentRefusal(<<"n", "o">>)>>),
          ReasoningItem>>,
        "completed"),
     ResponseError(Some("server_error"), "boom")}

Codecs == {"xai", "mistral", "publicai", "anthropic", "google", "openai"}

ChatCodecs == {"xai", "mistral", "publicai"}

\* The payloads of a codec's stream.
Payloads(c) ==
    CASE c \in {"xai", "publicai"} -> StringChunks \cup ToolChunks
      [] c = "mistral" -> MistralChunks \cup ToolChunks
      [] c = "anthropic" -> AnthropicEvents
      [] c = "google" -> GoogleChunks
      [] c = "openai" -> OpenAiEvents

\* The transports of a codec's stream.  A read_line failure is the last
\* thing a transport yields: the body stream that failed is over.
Wires(c) ==
    {w \in SeqUpTo(CommonWire \cup {DataLine(v) : v \in Payloads(c)}, MaxWire) :
        \A i \in 1..(Len(w) - 1) : w[i].k = "line"}

\* ResponseStream::new of the codec, on a transport.
NewStream(c, wire) ==
    CASE c \in ChatCodecs -> ChatNew(wire)
      [] c = "anthropic" -> AnthropicNew(wire)
      [] c = "google" -> GoogleNew(wire)
      [] c = "openai" -> OpenAiNew(wire)

-----------------------------------------------------------------------------
(* llms/mod.rs: Llms.  A provider (an entry of LlmProviders) is named as   *)
(* its codec is.                                                           *)

\* enum Model
Models ==
    {"Gpt5", "Gpt5Mini", "Gpt5Nano", "Gpt5_2",
     "ClaudeOpus4_6", "ClaudeSonnet4_6", "ClaudeHaiku4_5",
     "GeminiPro3", "GeminiFlash3",
     "Grok4_1Fast", "Grok4_1FastNonReasoning", "GrokCodeFast1",
     "MistralLarge3", "MistralMedium3_1", "MistralSmall3_2", "Devstral2",
     "MagistralMedium1_2",
     "Apertus8bInstruct"}

\* LlmsConfig: an Option<String> per provider.
LlmsConfigs == [Codecs -> {None, Some("key")}]

\* Llms::new: a provider is built from its key, if there is one.
LlmsNew(config) ==
    [inner |-> [p \in Codecs |->
                  IF config[p] = None THEN None
                  ELSE Some([api_key |-> config[p][1]])]]

\* LlmsError::LlmNotConfigured
LlmNotConfigured(name) ==
    [type |-> "Err", kind |-> "LlmNotConfigured", name |-> name]

\* The ResponseStream a request returns: RespStreamInner of a codec.
RespStream(c) == [type |-> "Stream", inner |-> c]

\* ProviderModels as if the match of Mistral had no arm for Devstral2.
ProviderModelsNoDevstral(p) ==
    CASE p = "openai" -> {"Gpt5", "Gpt5Mini", "Gpt5Nano", "Gpt5_2"}
      [] p = "anthropic" ->
           {"ClaudeOpus4_6", "ClaudeSonnet4_6", "ClaudeHaiku4_5"}
      [] p = "google" -> {"GeminiPro3", "GeminiFlash3"}
      [] p = "xai" ->
           {"Grok4_1Fast", "Grok4_1FastNonReasoning", "GrokCodeFast1"}
      [] p = "mistral" ->
           {"MistralLarge3", "MistralMedium3_1", "MistralSmall3_2",
            "MagistralMedium1_2"}
      [] p = "publicai" -> {"Apertus8bInstruct"}

\* The models a provider's LlmProvider::request maps to a model of its
\* own; any other model is unreachable!.
ProviderModels(p) ==
    CASE p = "openai" -> {"Gpt5", "Gpt5Mini", "Gpt5Nano", "Gpt5_2"}
      [] p = "anthropic" ->
           {"ClaudeOpus4_6", "ClaudeSonnet4_6", "ClaudeHaiku4_5"}
      [] p = "google" -> {"GeminiPro3", "GeminiFlash3"}
      [] p = "xai" ->
           {"Grok4_1Fast", "Grok4_1FastNonReasoning", "GrokCodeFast1"}
      [] p = "mistral" ->
           {"MistralLarge3", "MistralMedium3_1", "MistralSmall3_2",
            "Devstral2", "MagistralMedium1_2"}
      [] p = "publicai" -> {"Apertus8bInstruct"}

\* The host a provider's request posts to.
Endpoint(p) ==
    CASE p = "openai" -> "api.openai.com"
      [] p = "anthropic" -> "api.anthropic.com"
      [] p = "google" -> "generativelanguage.googleapis.com"
      [] p = "xai" -> "api.x.ai"
      [] p = "mistral" -> "api.mistral.ai"
      [] p = "publicai" -> "api.publicai.co"

\* What the network does to a post: the response streams, the status is
\* not a success, or send() fails.
NetOutcomes == {"stream", "status", "send"}

\* ProviderRequest with the tools of a PublicAI request not looked at.
ProviderRequestAnyTools(p, llm, req, net) ==
    IF req.model \notin ProviderModels(p)
    THEN [posts |-> <<>>, res |-> Panic]
    ELSE [posts |-> <<[host |-> Endpoint(p), api_key |-> llm.api_key]>>,
          res |-> CASE net = "send" -> ErrReqwest
                    [] net = "status" ->
                         ErrResponse(StatusInternalServerError, <<"body">>)
                    [] OTHER -> RespStream(p)]

\* LlmProvider::request of provider p (llm) and the request of its own
\* that it calls: `posts` are the HTTP requests made.
ProviderRequest(p, llm, req, net) ==
    IF req.model \notin ProviderModels(p)
    THEN [posts |-> <<>>, res |-> Panic]
    ELSE IF p = "publicai" /\ req.tools
    THEN [posts |-> <<>>,
          res |-> ErrResponse(StatusOk,
                    <<"tools are not supported by the PublicAI API">>)]
    ELSE [posts |-> <<[host |-> Endpoint(p), api_key |-> llm.api_key]>>,
          res |-> CASE net = "send" -> ErrReqwest
                    [] net = "status" ->
                         ErrResponse(StatusInternalServerError, <<"body">>)
                    [] OTHER -> RespStream(p)]

\* The provider whose arm of the match in Llms::request a model is in, as
\* if the xAI models were in the arm of Mistral.
ProviderOfXaiAsMistral(model) ==
    CASE model \in {"Gpt5", "Gpt5Mini", "Gpt5Nano", "Gpt5_2"} -> "openai"
      [] model \in {"ClaudeOpus4_6", "ClaudeSonnet4_6", "ClaudeHaiku4_5"} ->
           "anthropic"
      [] model \in {"GeminiPro3", "GeminiFlash3"} -> "google"
      [] model = "Apertus8bInstruct" -> "publicai"
      [] OTHER -> "mistral"

\* The provider whose arm of the match in Llms::request a model is in.
ProviderOf(model) ==
    CASE model \in {"Gpt5", "Gpt5Mini", "Gpt5Nano", "Gpt5_2"} -> "openai"
      [] model \in {"ClaudeOpus4_6", "ClaudeSonnet4_6", "ClaudeHaiku4_5"} ->
           "anthropic"
      [] model \in {"GeminiPro3", "GeminiFlash3"} -> "google"
      [] model \in {"Grok4_1Fast", "Grok4_1FastNonReasoning",
                    "GrokCodeFast1"} -> "xai"
      [] model \in {"MistralLarge3", "MistralMedium3_1", "MistralSmall3_2",
                    "Devstral2", "MagistralMedium1_2"} -> "mistral"
      [] model = "Apertus8bInstruct" -> "publicai"

\* The name LlmNotConfigured carries for a provider.
ProviderName(p) ==
    CASE p = "openai" -> "OpenAI"
      [] p = "anthropic" -> "Anthropic"
      [] p = "google" -> "Google"
      [] p = "xai" -> "xAI"
      [] p = "mistral" -> "Mistral"
      [] p = "publicai" -> "PublicAI"

\* Llms::request: `invoked` are the providers whose LlmProvider::request
\* was called, `posts` the HTTP requests made, `res` what is returned.
LlmsRequestOn(l, req, net) ==
    LET p == ProviderOf(req.model) IN
    IF l.inner[p] = None
    THEN [req |-> req, invoked |-> <<>>, posts |-> <<>>,
          res |-> LlmNotConfigured(ProviderName(p))]
    ELSE LET r == ProviderRequest(p, l.inner[p][1], req, net)
         IN  [req |-> req, invoked |-> <<p>>, posts |-> r.posts,
              res |-> r.res]

-----------------------------------------------------------------------------
(* Request translation: llms::Input, and what each provider's              *)
(* LlmProvider::request makes of Request.input and Request.instructions.   *)
(* The instructions are an atom, "" when empty.                            *)

\* Input::Text, Input::ToolCall, Input::ToolCallOutput
InputText(role, content) ==
    [type |-> "Text", role |-> role, content |-> content]

InputToolCall(id, name, input, context) ==
    [type |-> "ToolCall", id |-> id, name |-> name, input |-> input,
     context |-> context]

InputToolCallOutput(id, output) ==
    [type |-> "ToolCallOutput", id |-> id, output |-> output]

\* InputFromOutput with the context of a tool call left behind.
InputFromOutputNoContext(output) ==
    IF output.type = "Text"
    THEN InputText("Assistant", output.content)
    ELSE InputToolCall(output.id, output.name, output.input, None)

\* impl From<Output> for Input
InputFromOutput(output) ==
    IF output.type = "Text"
    THEN InputText("Assistant", output.content)
    ELSE InputToolCall(output.id, output.name, output.input, output.context)

RECURSIVE to_string(_)
\* Value::to_string: the compact JSON text of a Value.
to_string(v) ==
    IF v = <<"s">> THEN <<"s">>
    ELSE IF v = <<"o">> THEN <<"{", "}">>
    ELSE <<"{", "q">> \o to_string(v[2]) \o <<"}">>

\* impl From<llms::Input> for ApiMessage of xai, mistral and publicai.
ChatApiMessage(input) ==
    CASE input.type = "Text" ->
           IF input.role = "User"
           THEN [role |-> "user", content |-> input.content]
           ELSE [role |-> "assistant", content |-> Some(input.content),
                 tool_calls |-> None]
      [] input.type = "ToolCall" ->
           [role |-> "assistant", content |-> None,
            tool_calls |->
                Some(<<[id |-> input.id, kind |-> "function",
                        function |->
                            [name |-> input.name,
                             arguments |-> to_string(input.input)]]>>)]
      [] input.type = "ToolCallOutput" ->
           [role |-> "tool", tool_call_id |-> input.id,
            content |-> input.output]

\* ChatRequest with the system message pushed after the messages of the
\* input.
ChatRequestSystemLast(req) ==
    [messages |->
        [k \in 1..Len(req.input) |-> ChatApiMessage(req.input[k])]
        \o (IF req.instructions # ""
            THEN <<[role |-> "system", content |-> req.instructions]>>
            ELSE <<>>)]

\* The messages LlmProvider::request of xai, mistral and publicai builds.
ChatRequest(req) ==
    [messages |->
        (IF req.instructions # ""
         THEN <<[role |-> "system", content |-> req.instructions]>>
         ELSE <<>>)
        \o [k \in 1..Len(req.input) |-> ChatApiMessage(req.input[k])]]

\* anthropic: impl From<llms::Input> for ApiMessage
AnthropicApiMessage(input) ==
    CASE input.type = "Text" ->
           [role |-> (IF input.role = "User" THEN "user" ELSE "assistant"),
            content |-> [t |-> "Text", text |-> input.content]]
      [] input.type = "ToolCall" ->
           [role |-> "assistant",
            content |->
                [t |-> "Blocks",
                 blocks |-> <<[type |-> "tool_use", id |-> input.id,
                               name |-> input.name,
                               input |-> input.input]>>]]
      [] input.type = "ToolCallOutput" ->
           [role |-> "user",
            content |->
                [t |-> "Blocks",
                 blocks |-> <<[type |-> "tool_result",
                               tool_use_id |-> input.id,
                               content |-> input.output]>>]]

\* anthropic: the Request LlmProvider::request builds.
AnthropicRequest(req) ==
    [messages |->
        [k \in 1..Len(req.input) |-> AnthropicApiMessage(req.input[k])],
     system |-> IF req.instructions = "" THEN None
                ELSE Some(req.instructions)]

\* GoogleApiContent with the function response left without the name.
GoogleApiContentUnnamed(input) ==
    CASE input.type = "Text" ->
           [role |-> (IF input.role = "User" THEN "user" ELSE "model"),
            parts |-> <<[t |-> "Text", text |-> input.content]>>]
      [] input.type = "ToolCall" ->
           [role |-> "model",
            parts |-> <<[t |-> "FunctionCall",
                         function_call |->
                             [name |-> input.name, args |-> input.input],
                         thought_signature |-> input.context]>>]
      [] input.type = "ToolCallOutput" ->
           [role |-> "user",
            parts |-> <<[t |-> "FunctionResponse",
                         function_response |->
                             [name |-> "",
                              response |-> [output |-> input.output]]]>>]

\* google: impl From<llms::Input> for ApiContent.  The response of a
\* function-response part is the JSON object {"output": output}.
GoogleApiContent(input) ==
    CASE input.type = "Text" ->
           [role |-> (IF input.role = "User" THEN "user" ELSE "model"),
            parts |-> <<[t |-> "Text", text |-> input.content]>>]
      [] input.type = "ToolCall" ->
           [role |-> "model",
            parts |-> <<[t |-> "FunctionCall",
                         function_call |->
                             [name |-> input.name, args |-> input.input],
                         thought_signature |-> input.context]>>]
      [] input.type = "ToolCallOutput" ->
           [role |-> "user",
            parts |-> <<[t |-> "FunctionResponse",
                         function_response |->
                             [name |-> input.id,
                              response |-> [output |-> input.output]]]>>]

\* google: the Request LlmProvider::request builds.
GoogleRequest(req) ==
    [contents |->
        [k \in 1..Len(req.input) |-> GoogleApiContent(req.input[k])],
     system_instruction |-> IF req.instructions = "" THEN None
                            ELSE Some(req.instructions)]

\* openai: impl From<llms::Input> for Input
OpenAiInput(input) ==
    CASE input.type = "Text" ->
           [type |-> "message",
            role |-> (IF input.role = "User" THEN "user" ELSE "assistant"),
            content |-> input.content]
      [] input.type = "ToolCall" ->
           [type |-> "function_call", id |-> None, call_id |-> input.id,
            name |-> input.name, arguments |-> to_string(input.input),
            status |-> None]
      [] input.type = "ToolCallOutput" ->
           [type |-> "function_call_output", id |-> None,
            call_id |-> input.id, output |-> input.output]

\* openai: the Request LlmProvider::request builds.
OpenAiRequest(req) ==
    [input |-> [k \in 1..Len(req.input) |-> OpenAiInput(req.input[k])],
     instructions |-> req.instructions]

\* The Request of its own that provider p makes of a llms::Request.
ProviderBody(p, req) ==
    CASE p \in ChatCodecs -> ChatRequest(req)
      [] p = "anthropic" -> AnthropicRequest(req)
      [] p = "google" -> GoogleRequest(req)
      [] p = "openai" -> OpenAiRequest(req)

\* next() of the stream of codec c.
CodecNext(c, s) ==
    CASE c \in ChatCodecs -> ChatNext(c, s)
      [] c = "anthropic" -> AnthropicNext(s)
      [] c = "google" -> GoogleNext(s)
      [] c = "openai" -> OpenAiNext(s)

RECURSIVE FinalResponse(_, _, _)
\* The caller's loop over a stream: the output of the Completed event, if
\* one comes within n calls before None, an error or a panic.
FinalResponse(c, s, n) ==
    IF n = 0 THEN None
    ELSE LET r == CodecNext(c, s) IN
         IF r.res.type = "Completed" THEN Some(r.res.output)
         ELSE IF r.res.type = "TextDelta" THEN FinalResponse(c, r.s, n - 1)
         ELSE None

-----------------------------------------------------------------------------
(* The state machine: one stream of one codec, and the caller's next()     *)
(* calls on it.  `returned` is the history of what the calls returned.     *)

Init ==
    /\ codec \in Codecs
    /\ \E wire \in Wires(codec) : stream = NewStream(codec, wire)
    /\ returned = <<>>
    /\ llms = None
    /\ requested = <<>>
    /\ conversation = <<>>
    /\ sent = None
    /\ other = None

Panicked == returned # <<>> /\ returned[Len(returned)].type = "Panic"

\* The caller may call next() again.
CanCall == Len(returned) < MaxCalls /\ ~Panicked

\* The call's effect on the state.
Call(r) ==
    /\ stream' = r.s
    /\ returned' = Append(returned, r.res)
    /\ UNCHANGED <<codec, llms, requested, conversation, sent, other>>

XaiNext == codec = "xai" /\ CanCall /\ Call(ChatNext("xai", stream))

MistralNext ==
    codec = "mistral" /\ CanCall /\ Call(ChatNext("mistral", stream))

PublicAiNext ==
    codec = "publicai" /\ CanCall /\ Call(ChatNext("publicai", stream))

AnthropicStreamNext ==
    codec = "anthropic" /\ CanCall /\ Call(AnthropicNext(stream))

GoogleStreamNext == codec = "google" /\ CanCall /\ Call(GoogleNext(stream))

OpenAiStreamNext == codec = "openai" /\ CanCall /\ Call(OpenAiNext(stream))

Next ==
    \/ XaiNext
    \/ MistralNext
    \/ PublicAiNext
    \/ AnthropicStreamNext
    \/ GoogleStreamNext
    \/ OpenAiStreamNext

Spec == Init /\ [][Next]_vars

-----------------------------------------------------------------------------
(* The state machine of an Llms: `llms` is the Llms a configuration was    *)
(* made into, `requested` the history of the request() calls on it.  The   *)
(* streams the calls return are not read here.                             *)

\* Calls of Llms::request in a history.
MaxRequests == 1

InitLlms ==
    /\ codec = "none"
    /\ stream = None
    /\ returned = <<>>
    /\ \E config \in LlmsConfigs : llms = Some(LlmsNew(config))
    /\ requested = <<>>
    /\ conversation = <<>>
    /\ sent = None
    /\ other = None

\* A call of Llms::request: the request names a model and has tools or
\* none.
LlmsRequest ==
    /\ llms # None
    /\ Len(requested) < MaxRequests
    /\ \E model \in Models, tools \in BOOLEAN, net \in NetOutcomes :
           requested' =
               Append(requested,
                      LlmsRequestOn(llms[1],
                                    [model |-> model, tools |-> tools], net))
    /\ UNCHANGED <<codec, stream, returned, llms, conversation, sent,
                   other>>

SpecLlms == InitLlms /\ [][LlmsRequest]_vars

-----------------------------------------------------------------------------
(* The state machine of a conversation: the caller reads the response of   *)
(* a provider to its end and pushes its outputs, converted, on what will   *)
(* be Request.input, pushes inputs of its own, and has a provider build    *)
(* its request.  An entry of `conversation` is an Input with where it      *)
(* came from: the codec and the Output it was converted from (origin), or  *)
(* the entry whose tool call it answers (answers, 0 for none).  `sent` is  *)
(* the request built, with the llms::Request it was built from.            *)

\* Longest Request.input.
MaxInput == 3

\* The streams whose responses the caller pushes.
ResponseWires(c) ==
    CASE c \in ChatCodecs ->
           {<<DataLine(Chunk(<<ChunkChoice(
                (IF c = "mistral" THEN Some(DeltaContentText(<<"a">>))
                 ELSE Some(<<"a">>)), None)>>)), DoneLine>>,
            <<DataLine(ToolChunk(0, Some("abc"), Some("lookup"),
                                 Some(<<"{", "q">>))),
              DataLine(ToolChunk(0, None, None, Some(<<"s", " ", "}">>))),
              DoneLine>>}
      [] c = "anthropic" ->
           {<<DataLine(ContentBlockStart(0, StartText(<<"x">>))),
              DataLine(MessageStop)>>,
            <<DataLine(ContentBlockStart(0, StartToolUse("tu", "lookup"))),
              DataLine(ContentBlockDelta(0, InputJsonDelta(<<"{">>))),
              DataLine(ContentBlockDelta(0, InputJsonDelta(<<"}">>))),
              DataLine(MessageStop)>>}
      [] c = "google" ->
           {<<DataLine(StreamChunk(<<Candidate(Some(CandidateContent(
                <<PartText(<<"a">>)>>)))>>, None))>>,
            <<DataLine(StreamChunk(<<Candidate(Some(CandidateContent(
                <<PartFunctionCall("lookup", <<"o">>, Some("sig"))>>)))>>,
                None))>>,
            <<DataLine(StreamChunk(<<Candidate(Some(CandidateContent(
                <<PartFunctionCall("lookup", <<"o">>, Some("sig")),
                  PartFunctionCall("lookup", <<"o", <<"s">>>>, None)>>)))>>,
                None))>>}
      [] c = "openai" ->
           {<<DataLine(ResponseCompleted(
                <<OutputMessage("completed",
                                <<ContentOutputText(<<"a", "b">>)>>)>>,
                "completed"))>>,
            <<DataLine(ResponseCompleted(
                <<ReasoningItem,
                  FunctionCall("c1", "lookup", <<"{", "}">>,
                               Some("completed"))>>,
                "completed"))>>}

\* Request.instructions
Instructions == {"", "be brief"}

InitRequest ==
    /\ codec = "none"
    /\ stream = None
    /\ returned = <<>>
    /\ llms = None
    /\ requested = <<>>
    /\ conversation = <<>>
    /\ sent = None
    /\ other = None

\* The responses the caller reads to their Completed event: the codec and
\* the output of the Response.
Responses ==
    UNION {{[codec |-> c, output |-> out[1]] :
               out \in {FinalResponse(c, NewStream(c, wire), MaxCalls) :
                           wire \in ResponseWires(c)} \ {None}} :
           c \in Codecs}

\* The caller pushes every Output of a response, converted with
\* Input::from.
PushResponse ==
    /\ sent = None
    /\ \E r \in Responses :
           /\ Len(conversation) + Len(r.output) <= MaxInput
           /\ conversation' =
                  conversation \o
                  [k \in 1..Len(r.output) |->
                     [origin |-> Some([codec |-> r.codec,
                                       output |-> r.output[k]]),
                      answers |-> 0,
                      input |-> InputFromOutput(r.output[k])]]
    /\ UNCHANGED <<codec, stream, returned, llms, requested, sent, other>>

\* The caller pushes a user's text.
PushUserText ==
    /\ sent = None
    /\ Len(conversation) < MaxInput
    /\ conversation' =
           Append(conversation,
                  [origin |-> None, answers |-> 0,
                   input |-> InputText("User", <<"q">>)])
    /\ UNCHANGED <<codec, stream, returned, llms, requested, sent, other>>

\* The caller pushes the output of a tool call of the conversation, under
\* the id of the call.
PushToolCallOutput ==
    /\ sent = None
    /\ Len(conversation) < MaxInput
    /\ \E k \in 1..Len(conversation) :
           /\ conversation[k].input.type = "ToolCall"
           /\ conversation' =
                  Append(conversation,
                         [origin |-> None, answers |-> k,
                          input |-> InputToolCallOutput(
                                       conversation[k].input.id, <<"r">>)])
    /\ UNCHANGED <<codec, stream, returned, llms, requested, sent, other>>

\* LlmProvider::request of a provider, up to the Request of its own.
BuildRequest ==
    /\ sent = None
    /\ \E p \in Codecs, instructions \in Instructions :
           LET req == [input |-> [k \in 1..Len(conversation) |->
                                    conversation[k].input],
                       instructions |-> instructions]
           IN  sent' = Some([provider |-> p, req |-> req,
                             body |-> ProviderBody(p, req)])
    /\ UNCHANGED <<codec, stream, returned, llms, requested, conversation,
                   other>>

NextRequest ==
    \/ PushResponse
    \/ PushUserText
    \/ PushToolCallOutput
    \/ BuildRequest

SpecRequest == InitRequest /\ [][NextRequest]_vars

-----------------------------------------------------------------------------
(* What the claims speak of.                                               *)

\* The transport of the stream and the entries of it read so far.
Wire == stream.inner.wire

Consumed == SubSeq(Wire, 1, stream.inner.pos)

Calls == 1..Len(returned)

\* What the calls returned, the None results left out.
Events == SelectSeq(returned, LAMBDA e : e.type # "None")

IsTextDelta(e) == e.type = "TextDelta"

RECURSIVE DeltaContents(_)
\* The contents of the TextDelta events of a history, in order.
DeltaContents(evs) ==
    IF evs = <<>> THEN <<>>
    ELSE (IF IsTextDelta(Head(evs)) THEN <<Head(evs).content>> ELSE <<>>)
         \o DeltaContents(Tail(evs))

\* The string S the TextDelta events returned so far concatenate to.
DeltaString == Concat(DeltaContents(returned))

\* The last value a call returned that is not None.
LastEvent == Events[Len(Events)]

\* The entry of the transport read last.
LastRead == Wire[stream.inner.pos]

\* The last call returned a value other than None.
LastCallReturnedEvent ==
    returned # <<>> /\ returned[Len(returned)].type # "None"

IsJson(o) == o.k = "line" /\ o.data /\ o.body.p = "json"

\* The payloads of the data: lines of a transport that deserialize.
JsonPayloads(w) ==
    LET lines == SelectSeq(w, IsJson) IN
    [i \in 1..Len(lines) |-> lines[i].body.v]

\* The members of a sequence.
Range(f) == {f[i] : i \in 1..Len(f)}

-----------------------------------------------------------------------------
\* C1: for every provider stream, after a call has returned Completed every
\* later call returns None: no TextDelta, no second Completed, no error.
\* openai's stream keeps no done flag and reads on.
C1_CompletedIsLast ==
    \A i, j \in Calls :
        (i < j /\ returned[i].type = "Completed") => returned[j].type = "None"

\* C2: next() returns None only after an earlier call on the stream has
\* returned an error or a Completed event.  anthropic and openai return
\* None when the transport ends before message_stop / response.completed.
C2_NoneOnlyAfterTerminal ==
    \A j \in Calls :
        returned[j].type = "None" =>
            \E i \in 1..(j - 1) : returned[i].type \in {"Err", "Completed"}

\* C3: once a call has returned an error, no later call on the stream
\* returns a TextDelta or a Completed event.  No codec sets done on an
\* error of the frame reader.
C3_ErrorIsTerminal ==
    \A i, j \in Calls :
        (i < j /\ returned[i].type = "Err") =>
            returned[j].type \notin {"TextDelta", "Completed"}

-----------------------------------------------------------------------------
(* C4: the text of Completed against the TextDelta events.                 *)

\* A payload of the codec carries tool-call data.
HasToolCall(c, v) ==
    CASE c \in ChatCodecs ->
           \E ch \in Range(v.choices) : ch.delta.tool_calls # None
      [] c = "anthropic" ->
           \/ v.type = "content_block_start" /\ v.content_block.type = "tool_use"
           \/ v.type = "content_block_delta"
              /\ v.delta.type = "input_json_delta"
      [] c = "google" ->
           \E ca \in Range(v.candidates) :
               /\ ca.content # None
               /\ \E part \in Range(ca.content[1].parts) :
                      part.t = "FunctionCall"
      [] c = "openai" ->
           /\ v.type = "response.completed"
           /\ \E item \in Range(v.response.output) :
                  item.type = "function_call"

\* The decoder was fed no tool-call data.
NoToolCalls == \A v \in Range(JsonPayloads(Consumed)) : ~HasToolCall(codec, v)

\* The stream has come to the provider's normal terminal signal: the end
\* of the transport (Chat-Completions, google), message_stop (anthropic),
\* a response.completed of status completed (openai).
AtNormalEnd ==
    CASE codec \in ChatCodecs -> stream.done
      [] codec = "google" ->
           /\ stream.done
           /\ \A v \in Range(JsonPayloads(Consumed)) : v.error = None
      [] codec = "anthropic" ->
           stream.done /\ LastRead = DataLine(MessageStop)
      [] codec = "openai" ->
           /\ LastCallReturnedEvent
           /\ IsJson(LastRead)
           /\ LastRead.body.v.type = "response.completed"
           /\ LastRead.body.v.response.status = "completed"

RECURSIVE AnthropicBlockText(_, _)
\* The text of the text deltas addressed to block k in a sequence of
\* anthropic events.
AnthropicBlockText(evs, k) ==
    IF evs = <<>> THEN EmptyString
    ELSE (IF /\ Head(evs).type = "content_block_delta"
             /\ Head(evs).index = k
             /\ Head(evs).delta.type = "text_delta"
          THEN Head(evs).delta.text ELSE EmptyString)
         \o AnthropicBlockText(Tail(evs), k)

\* One Output::Text per started text block whose text (the text of its
\* content_block_start, then its deltas) is not empty, in block order.
AnthropicExpectedTexts(evs) ==
    LET starts == SelectSeq(evs, LAMBDA e : e.type = "content_block_start")
        texts == [k \in 1..Len(starts) |->
                    starts[k].content_block.text
                        \o AnthropicBlockText(evs, k - 1)]
        kept == SelectSeq(texts, LAMBDA t : t # EmptyString)
    IN  [k \in 1..Len(kept) |-> OutputText(kept[k])]

\* All the text of the anthropic stream came as deltas of one block.
AnthropicSingleTextBlock(evs) ==
    LET starts == SelectSeq(evs, LAMBDA e : e.type = "content_block_start")
    IN  \E k \in 1..Len(starts) :
            \A j \in 1..Len(starts) :
                /\ starts[j].content_block.text = EmptyString
                /\ j # k => AnthropicBlockText(evs, j - 1) = EmptyString

RECURSIVE OpenAiContentText(_)
\* The output_text and refusal parts of a message, concatenated.
OpenAiContentText(content) ==
    IF content = <<>> THEN EmptyString
    ELSE LET part == Head(content) IN
         (CASE part.type = "output_text" -> part.text
            [] part.type = "refusal" -> part.text
            [] OTHER -> EmptyString) \o OpenAiContentText(Tail(content))

\* One Output::Text per message item of a response.completed payload.
OpenAiExpectedTexts(items) ==
    LET msgs == SelectSeq(items, LAMBDA it : it.type = "message")
    IN  [k \in 1..Len(msgs) |-> OutputText(OpenAiContentText(msgs[k].content))]

\* The error of a stream that ends with nothing accumulated.
NoOutputError == ErrResponse(StatusOk, <<"no output in response">>)

\* C4, Chat-Completions and google: at the end of the transport the stream
\* yields Completed with exactly one Output::Text holding S when a
\* TextDelta was returned, and the "no output" error when none was.
C4_ChatGoogle ==
    (codec \in ChatCodecs \cup {"google"} /\ NoToolCalls /\ AtNormalEnd) =>
        /\ Events # <<>>
        /\ IF DeltaString # EmptyString
           THEN LastEvent = Completed(<<OutputText(DeltaString)>>)
           ELSE LastEvent = NoOutputError
        /\ Cardinality({i \in Calls : returned[i].type = "Completed"}) <= 1

\* C4, anthropic: at message_stop the stream yields Completed with one
\* Output::Text per text block of non-empty text, in block order; that is
\* the one Output::Text holding S when one block received all the text.
C4_Anthropic ==
    (codec = "anthropic" /\ NoToolCalls /\ AtNormalEnd) =>
        LET evs == JsonPayloads(Consumed) IN
        /\ Events # <<>>
        /\ LastEvent = Completed(AnthropicExpectedTexts(evs))
        /\ (AnthropicSingleTextBlock(evs) /\ DeltaString # EmptyString) =>
               LastEvent = Completed(<<OutputText(DeltaString)>>)

\* C4, openai: at response.completed the stream yields Completed with one
\* Output::Text per message item, holding the item's own text, whatever
\* TextDelta events were forwarded before.
C4_OpenAi ==
    (/\ codec = "openai" /\ NoToolCalls /\ AtNormalEnd
     /\ \A item \in Range(LastRead.body.v.response.output) :
            item.type = "message" => item.status = "completed") =>
        returned[Len(returned)] =
            Completed(OpenAiExpectedTexts(LastRead.body.v.response.output))

-----------------------------------------------------------------------------
(* C5, C6, C7, C9: the tool-call slots of the Chat-Completions decoders.   *)

RECURSIVE ToolDeltas(_)
\* The tool-call deltas of a sequence of chunks (of the first choice of
\* each), in arrival order.
ToolDeltas(chunks) ==
    IF chunks = <<>> THEN <<>>
    ELSE LET choices == Head(chunks).choices
             first == IF choices = <<>> \/ Head(choices).delta.tool_calls = None
                      THEN <<>> ELSE Head(choices).delta.tool_calls[1]
         IN  first \o ToolDeltas(Tail(chunks))

\* The indexes the deltas address.
Indexes(deltas) == {deltas[k].index : k \in 1..Len(deltas)}

\* The highest index addressed, -1 when there is none: the slots are
\* 0..MaxIndex.
MaxIndex(deltas) ==
    IF deltas = <<>> THEN -1
    ELSE CHOOSE m \in Indexes(deltas) : \A i \in Indexes(deltas) : i <= m

RECURSIVE FragmentsOf(_, _)
\* The concatenation, in arrival order, of the argument fragments
\* addressed to index i.
FragmentsOf(deltas, i) ==
    IF deltas = <<>> THEN EmptyString
    ELSE LET d == Head(deltas) IN
         (IF d.index = i /\ d.function # None /\ d.function[1].arguments # None
          THEN d.function[1].arguments[1] ELSE EmptyString)
         \o FragmentsOf(Tail(deltas), i)

\* The id and the name given for index i: those of the first delta of the
\* slot.
IdOf(deltas, i) ==
    LET with == SelectSeq(deltas, LAMBDA d : d.index = i /\ d.id # None)
    IN  IF with = <<>> THEN "" ELSE with[1].id[1]

NameOf(deltas, i) ==
    LET with == SelectSeq(deltas,
                    LAMBDA d : /\ d.index = i /\ d.function # None
                               /\ d.function[1].name # None)
    IN  IF with = <<>> THEN "" ELSE with[1].function[1].name[1]

\* One ToolCall per index 0..n-1, with the slot's id and name and the parse
\* of the concatenation of its fragments.
ExpectedToolCalls(deltas, n) ==
    [k \in 1..n |->
        OutputToolCall(IdOf(deltas, k - 1), NameOf(deltas, k - 1),
                       from_str(FragmentsOf(deltas, k - 1)).v, None)]

\* The tool calls of a Completed event.
ToolCallsOf(e) == SelectSeq(e.output, LAMBDA o : o.type = "ToolCall")

\* The deltas the decoder was fed.
ConsumedDeltas == ToolDeltas(JsonPayloads(Consumed))

\* C5: in the Chat-Completions decoders, for any interleaving of deltas
\* addressed to the indexes 0..n-1, each slot's argument string is the
\* concatenation in arrival order of the fragments addressed to it, and
\* (when these parse) Completed holds one ToolCall per index, with the
\* slot's id and name.  resize_with(index + 1) truncates the slots above
\* an index that is addressed again.
C5_InterleavedSlots ==
    LET deltas == ConsumedDeltas
        n == Cardinality(Indexes(deltas))
    IN  (/\ codec \in ChatCodecs /\ stream.done
         /\ Indexes(deltas) = 0..(n - 1) /\ n > 0
         /\ \A i \in 0..(n - 1) : from_str(FragmentsOf(deltas, i)).ok) =>
            /\ LastEvent.type = "Completed"
            /\ ToolCallsOf(LastEvent) = ExpectedToolCalls(deltas, n)

\* The deltas read by the step from this state to the next.
StepDeltas ==
    ToolDeltas(JsonPayloads(
        SubSeq(Wire, stream.inner.pos + 1, stream'.inner.pos)))

\* C6: in the Chat-Completions decoders, until the drain at stream end the
\* number of slots does not decrease from one step to the next, and a slot
\* that no delta of the step addresses keeps its id, name and arguments.
C6_SlotsAppendOnly ==
    [][(codec \in ChatCodecs /\ ~stream'.done) =>
          /\ Len(stream'.tool_calls) >= Len(stream.tool_calls)
          /\ \A j \in 1..Len(stream.tool_calls) :
                 (j - 1) \notin Indexes(StepDeltas) =>
                     /\ j <= Len(stream'.tool_calls)
                     /\ stream'.tool_calls[j] = stream.tool_calls[j]]_vars

\* The transport is that of C7: deltas of the one slot 0 and no text, the
\* first delta with id and name, the later ones with an argument fragment
\* only.
SingleSlotWire ==
    LET chunks == JsonPayloads(Wire)
        deltas == ToolDeltas(chunks)
    IN  /\ Wire # <<>>
        /\ \A k \in 1..Len(Wire) :
               \/ IsJson(Wire[k]) /\ Len(Wire[k].body.v.choices) = 1
                  /\ Wire[k].body.v.choices[1].delta.content = None
                  /\ Wire[k].body.v.choices[1].delta.tool_calls # None
               \/ k = Len(Wire) /\ k > 1 /\ Wire[k] = DoneLine
        /\ \A k \in 1..Len(deltas) :
               /\ deltas[k].index = 0
               /\ deltas[k].function # None
               /\ IF k = 1
                  THEN deltas[k].id # None /\ deltas[k].function[1].name # None
                  ELSE /\ deltas[k].id = None
                       /\ deltas[k].function[1].name = None
                       /\ deltas[k].function[1].arguments # None

\* C7: in the Chat-Completions decoders, a single slot whose first delta
\* carries id and name and whose later deltas carry argument fragments,
\* followed by stream end with no text: the stream returns no TextDelta
\* and exactly Completed([ToolCall{id, name, input}]), input the parse of
\* the concatenated fragments.
C7_SingleToolCall ==
    LET deltas == ToolDeltas(JsonPayloads(Wire))
        input == from_str(FragmentsOf(deltas, 0))
    IN  (codec \in ChatCodecs /\ SingleSlotWire /\ stream.done /\ input.ok) =>
            Events = <<Completed(<<OutputToolCall(deltas[1].id[1],
                                     deltas[1].function[1].name[1],
                                     input.v, None)>>)>>

\* C7 witness: id abc, name lookup, the fragments {"q": and "paris"}.
C7_Witness ==
    /\ codec = "xai" /\ SingleSlotWire /\ stream.done
    /\ Len(Wire) = 3
    /\ FragmentsOf(ToolDeltas(JsonPayloads(Wire)), 0) = <<"{", "q", "s", " ", "}">>
    /\ returned = <<Completed(<<OutputToolCall("abc", "lookup",
                                               <<"o", <<"s">>>>, None)>>)>>

\* C9: in the Chat-Completions decoders, a stream that ends with no
\* TextDelta returned and no tool-call delta received returns the error
\* "no output in response", and no Completed ever has an empty output.
C9_NoOutputError ==
    codec \in ChatCodecs =>
        /\ \A i \in Calls : returned[i] # Completed(<<>>)
        /\ (stream.done /\ DeltaString = EmptyString /\ ConsumedDeltas = <<>>) =>
               /\ Events # <<>>
               /\ LastEvent = ErrResponse(StatusOk, <<"no output in response">>)
               /\ \A i \in Calls : returned[i].type # "Completed"

\* C9 witness: a stream of an empty content delta and [DONE] ended in the
\* error.
C9_Witness ==
    /\ codec = "publicai" /\ stream.done
    /\ Wire = <<DataLine(Chunk(<<ChunkChoice(Some(EmptyString), None)>>)),
                DoneLine>>
    /\ returned = <<ErrResponse(StatusOk, <<"no output in response">>)>>

-----------------------------------------------------------------------------
(* C8: tool arguments that are not JSON at finalization.                   *)

RECURSIVE AnthropicBlockJson(_, _)
\* The concatenation of the input_json deltas addressed to block k in a
\* sequence of anthropic events.
AnthropicBlockJson(evs, k) ==
    IF evs = <<>> THEN EmptyString
    ELSE (IF /\ Head(evs).type = "content_block_delta"
             /\ Head(evs).index = k
             /\ Head(evs).delta.type = "input_json_delta"
          THEN Head(evs).delta.partial_json ELSE EmptyString)
         \o AnthropicBlockJson(Tail(evs), k)

\* The names of the tool calls whose accumulated argument string is not
\* JSON, at the finalization the stream has come to.
BadTools ==
    CASE codec \in ChatCodecs ->
           IF ~stream.done THEN {}
           ELSE {NameOf(ConsumedDeltas, i) : i \in
                   {i \in 0..MaxIndex(ConsumedDeltas) :
                       ~from_str(FragmentsOf(ConsumedDeltas, i)).ok}}
      [] codec = "anthropic" ->
           IF ~(stream.done /\ LastRead = DataLine(MessageStop)) THEN {}
           ELSE LET evs == JsonPayloads(Consumed)
                    starts == SelectSeq(evs,
                                LAMBDA e : e.type = "content_block_start")
                IN  {starts[k].content_block.name : k \in
                       {k \in 1..Len(starts) :
                           /\ starts[k].content_block.type = "tool_use"
                           /\ ~from_str(AnthropicBlockJson(evs, k - 1)).ok}}
      [] codec = "openai" ->
           IF ~AtNormalEnd THEN {}
           ELSE {item.name : item \in
                   {item \in Range(LastRead.body.v.response.output) :
                       /\ item.type = "function_call"
                       /\ ~from_str(item.arguments).ok}}
      [] OTHER -> {}

\* An error of the "invalid LLM response" kind whose message names one of
\* the tools.
NamesTool(e, tools) ==
    /\ e.type = "Err" /\ e.kind = "Response" /\ e.status = StatusOk
    /\ \E name \in tools : name \in Range(e.body)

\* C8: in the Chat-Completions, anthropic and openai decoders, when a tool
\* call's accumulated argument string is not valid JSON at finalization,
\* the finalizing call returns an "invalid LLM response" error whose
\* message names the offending tool, and it neither returns Completed nor
\* panics.  openai's message, "failed to parse function call arguments",
\* does not hold the name.
C8_BadArgumentsNameTool ==
    BadTools # {} =>
        /\ Events # <<>>
        /\ LastEvent.type \notin {"Completed", "Panic"}
        /\ NamesTool(LastEvent, BadTools)

-----------------------------------------------------------------------------
(* C10: anthropic deltas that break the protocol.                          *)

\* The last entry read is a content_block_delta for a block that was not
\* started, or of a kind that is not the kind of its block.
ProtocolViolation ==
    /\ codec = "anthropic"
    /\ LastCallReturnedEvent
    /\ IsJson(LastRead)
    /\ LET ev == LastRead.body.v IN
       /\ ev.type = "content_block_delta"
       /\ \/ ev.index >= Len(stream.blocks)
          \/ /\ ev.delta.type = "text_delta"
             /\ stream.blocks[ev.index + 1].type # "Text"
          \/ /\ ev.delta.type = "input_json_delta"
             /\ stream.blocks[ev.index + 1].type # "ToolUse"

\* C10: in the anthropic decoder a content_block_delta for a block that was
\* not started, or of the wrong kind for its block, is returned to the
\* caller as an error: the call does not panic and does not pass over the
\* delta.  The code reaches expect(..) and unreachable!(..) there.
C10_ViolationIsError ==
    ProtocolViolation => returned[Len(returned)].type = "Err"

-----------------------------------------------------------------------------
(* C11, C12: the statuses of an openai response.completed payload.         *)

\* The call that has just returned read a response.completed event.
ReadResponseCompleted ==
    /\ codec = "openai"
    /\ LastCallReturnedEvent
    /\ IsJson(LastRead)
    /\ LastRead.body.v.type = "response.completed"

\* An output item whose status is not "completed": a message of another
\* status, a function_call of another or of no status.
BadItemStatus(item) ==
    \/ item.type = "message" /\ item.status # "completed"
    \/ item.type = "function_call" /\ item.status # Some("completed")

\* C11: in the openai decoder a response.completed payload (of top-level
\* status completed) with a function_call item whose status is absent or
\* not completed, or a message item whose status is not completed, is
\* returned to the caller as an error; the conversion does not panic.  The
\* code states the statuses with assert!.
C11_ItemStatusIsError ==
    (/\ ReadResponseCompleted
     /\ LastRead.body.v.response.status = "completed"
     /\ \E item \in Range(LastRead.body.v.response.output) :
            BadItemStatus(item)) =>
        returned[Len(returned)].type = "Err"

\* C12: in the openai decoder a response.completed event whose top-level
\* status is not completed returns the error "response status is not
\* completed" and no Completed event, whatever output items it carries.
C12_StatusNotCompletedIsError ==
    (ReadResponseCompleted /\ LastRead.body.v.response.status # "completed") =>
        returned[Len(returned)] =
            ErrResponse(StatusOk, <<"response status is not completed",
                                    LastRead.body.v.response.status>>)

\* C12 witness: a payload of status incomplete that carries a completed
\* message returned the error.
C12_Witness ==
    /\ ReadResponseCompleted
    /\ LastRead.body.v.response.status = "incomplete"
    /\ LastRead.body.v.response.output # <<>>
    /\ returned = <<ErrResponse(StatusOk,
                       <<"response status is not completed", "incomplete">>)>>

-----------------------------------------------------------------------------
(* C13: in-band vendor errors.                                             *)

\* The payload is the codec's in-band error: anthropic's and openai's
\* error event, a google chunk with an error object.
InBandError(c, v) ==
    CASE c \in {"anthropic", "openai"} -> v.type = "error"
      [] c = "google" -> v.error # None
      [] OTHER -> FALSE

\* The error value the stream returns for it.
InBandErrorValue(c, v) ==
    CASE c = "anthropic" ->
           ErrResponse(StatusOk, <<v.error.error_type, v.error.message>>)
      [] c = "google" ->
           ErrResponse(GoogleStatus(IF v.error[1].code = None THEN 0
                                    ELSE v.error[1].code[1]),
                       <<v.error[1].message>>)
      [] c = "openai" -> ErrResponse(StatusOk, v.code \o <<v.message>>)

\* The error values of the in-band errors of the transport.
InBandErrorValues ==
    {InBandErrorValue(codec, v) :
        v \in {v \in Range(JsonPayloads(Wire)) : InBandError(codec, v)}}

\* C13: in the anthropic, google and openai decoders the call that reads an
\* in-band error returns the error, and every later call returns None: no
\* Completed with what was accumulated, no other event.  openai's stream
\* keeps no done flag and reads on after the error event.
C13_InBandErrorEndsStream ==
    codec \in {"anthropic", "google", "openai"} =>
        /\ (/\ LastCallReturnedEvent /\ stream.inner.pos > 0
            /\ IsJson(LastRead)
            /\ InBandError(codec, LastRead.body.v)) =>
               returned[Len(returned)] =
                   InBandErrorValue(codec, LastRead.body.v)
        /\ \A i, j \in Calls :
               (i < j /\ returned[i] \in InBandErrorValues) =>
                   returned[j].type = "None"

-----------------------------------------------------------------------------
(* C14, C15: the end of a google stream.                                   *)

\* The first candidate of the chunk carries a finish signal.
Finished(v) ==
    /\ v.error = None
    /\ v.candidates # <<>>
    /\ "finish_reason" \in DOMAIN Head(v.candidates)

\* C14: in the google decoder the call that reads a chunk whose first
\* candidate carries a finish signal returns Completed, with the text and
\* the tool calls accumulated, without waiting for the end of the
\* transport.  The decoder reads no finish signal: the chunk is handled as
\* any other and Completed comes at the end of the transport only.
C14_FinishFlushes ==
    (/\ codec = "google"
     /\ LastCallReturnedEvent /\ stream.inner.pos > 0
     /\ IsJson(LastRead) /\ Finished(LastRead.body.v)) =>
        returned[Len(returned)].type = "Completed"

\* The parts of the first candidate of each chunk of a sequence, in order.
RECURSIVE GoogleSentParts(_)
GoogleSentParts(chunks) ==
    IF chunks = <<>> THEN <<>>
    ELSE LET v == Head(chunks)
             parts == IF v.candidates = <<>>
                         \/ Head(v.candidates).content = None
                      THEN <<>>
                      ELSE Head(v.candidates).content[1].parts
         IN  parts \o GoogleSentParts(Tail(chunks))

\* The text of the text parts, concatenated.
RECURSIVE GooglePartsText(_)
GooglePartsText(parts) ==
    IF parts = <<>> THEN EmptyString
    ELSE (IF Head(parts).t = "Text" THEN Head(parts).text ELSE EmptyString)
         \o GooglePartsText(Tail(parts))

\* One Output::Text when there is text, then one Output::ToolCall per
\* function-call part, id and name the function's name.
GoogleExpectedOutput(chunks) ==
    LET parts == GoogleSentParts(chunks)
        text == GooglePartsText(parts)
        calls == SelectSeq(parts, LAMBDA part : part.t = "FunctionCall")
    IN  (IF text # EmptyString THEN <<OutputText(text)>> ELSE <<>>)
        \o [k \in 1..Len(calls) |->
              OutputToolCall(calls[k].function_call.name,
                             calls[k].function_call.name,
                             calls[k].function_call.args,
                             calls[k].thought_signature)]

\* The google transport has ended, with no finish signal and no in-band
\* error read before.
GoogleEndedUnfinished ==
    /\ codec = "google" /\ stream.done
    /\ \A v \in Range(JsonPayloads(Consumed)) :
           v.error = None /\ ~Finished(v)

\* C15 as claimed: a google transport that ends without a finish signal
\* yields Completed for every accumulated state, the state with no text
\* and no tool call included.
C15_Original ==
    GoogleEndedUnfinished =>
        /\ Events # <<>>
        /\ LastEvent = Completed(GoogleExpectedOutput(JsonPayloads(Consumed)))

\* C15 as amended: a google transport that ends without a finish signal
\* yields Completed with the accumulated text and tool calls when there is
\* at least one, and the "no output in response" error when there is
\* none.
C15_EndOfTransportFinalizes ==
    GoogleEndedUnfinished =>
        LET expected == GoogleExpectedOutput(JsonPayloads(Consumed)) IN
        /\ Events # <<>>
        /\ IF expected # <<>> THEN LastEvent = Completed(expected)
           ELSE LastEvent = NoOutputError

\* C15 witness: text and a function call, then the end of the transport.
C15_Witness ==
    /\ GoogleEndedUnfinished
    /\ returned = <<TextDelta(<<"a">>),
                    Completed(<<OutputText(<<"a">>),
                                OutputToolCall("lookup", "lookup", <<"o">>,
                                               Some("sig"))>>)>>

-----------------------------------------------------------------------------
(* C16, C17, C18: the shape of the Response of a Completed event.          *)

\* C16: the Response of every Completed event of every codec holds at most
\* one Output::Text, and it precedes the Output::ToolCall items.
\* anthropic yields one Output::Text per text block, in block order, and
\* openai one per message item.
C16_WellFormed ==
    \A i \in Calls :
        returned[i].type = "Completed" =>
            \A k \in 1..Len(returned[i].output) :
                returned[i].output[k].type = "Text" => k = 1

\* C17: no codec returns a Completed event whose Response has an empty
\* output list.  openai returns one for a payload of reasoning items
\* only, anthropic for a message without output.
C17_NoEmptyCompleted ==
    \A i \in Calls : returned[i] # Completed(<<>>)

\* C18: in the anthropic decoder, at message_stop no Output::Text of the
\* Completed event is empty, and a message with no blocks, or with text
\* blocks of empty text only, yields Completed with an empty output list.
C18_EmptyTextDropped ==
    (codec = "anthropic" /\ stream.done /\ LastRead = DataLine(MessageStop)) =>
        LET evs == JsonPayloads(Consumed) IN
        /\ Events # <<>>
        /\ LastEvent.type = "Completed" =>
               \A o \in Range(LastEvent.output) :
                   o.type = "Text" => o.content # EmptyString
        /\ (NoToolCalls /\ AnthropicExpectedTexts(evs) = <<>>) =>
               LastEvent = Completed(<<>>)

\* C18 witness: a text block that stays empty, then message_stop.
C18_Witness ==
    /\ codec = "anthropic"
    /\ Wire = <<DataLine(ContentBlockStart(0, StartText(EmptyString))),
                DataLine(ContentBlockStop(0)), DataLine(MessageStop)>>
    /\ returned = <<Completed(<<>>)>>

-----------------------------------------------------------------------------
(* C19: the anthropic decoder on text and input-JSON deltas.  The claim's  *)
(* scenario is five events long, so it has a specification of its own:     *)
(* anthropic streams of up to MaxHelloWire events of the scenario's kinds.  *)

MaxHelloWire == 5

Hello == <<"H", "e", "l", "l", "o">>

CommaWorld == <<",", " ", "w", "o", "r", "l", "d">>

HelloEvents ==
    {ContentBlockStart(0, StartText(EmptyString)),
     ContentBlockStart(1, StartToolUse("tu", "lookup")),
     ContentBlockDelta(0, ContentTextDelta(Hello)),
     ContentBlockDelta(0, ContentTextDelta(CommaWorld)),
     ContentBlockDelta(1, InputJsonDelta(<<"{", "}">>)),
     ContentBlockStop(0),
     MessageStop}

\* The scenario of the claim.
HelloWire ==
    <<DataLine(ContentBlockStart(0, StartText(EmptyString))),
      DataLine(ContentBlockDelta(0, ContentTextDelta(Hello))),
      DataLine(ContentBlockDelta(0, ContentTextDelta(CommaWorld))),
      DataLine(ContentBlockStop(0)),
      DataLine(MessageStop)>>

InitAnthropic ==
    /\ codec = "anthropic"
    /\ \E wire \in SeqUpTo({DataLine(v) : v \in HelloEvents}, MaxHelloWire) :
           stream = AnthropicNew(wire)
    /\ returned = <<>>
    /\ llms = None
    /\ requested = <<>>
    /\ conversation = <<>>
    /\ sent = None
    /\ other = None

SpecAnthropic == InitAnthropic /\ [][AnthropicStreamNext]_vars

\* The texts of the text deltas in a sequence of anthropic events.
TextDeltaTexts(evs) ==
    LET ds == SelectSeq(evs, LAMBDA e : /\ e.type = "content_block_delta"
                                        /\ e.delta.type = "text_delta")
    IN  [k \in 1..Len(ds) |-> ds[k].delta.text]

\* What the calls on the scenario return, call by call.
HelloReturn(i) ==
    CASE i = 1 -> TextDelta(Hello)
      [] i = 2 -> TextDelta(CommaWorld)
      [] i = 3 -> Completed(<<OutputText(Hello \o CommaWorld)>>)
      [] OTHER -> EndOfStream

\* C19: an anthropic stream that has not hit a protocol violation has
\* returned one TextDelta per text delta consumed, with the delta's text
\* and in wire order; an input-JSON delta yields no event, so the events
\* are these TextDeltas and the one that ended the stream; until then each
\* text block holds its start text followed by its deltas and each tool
\* block the concatenation of its input-JSON deltas.  On the scenario
\* start(text), delta('Hello'), delta(', world'), stop, message_stop the
\* calls return TextDelta('Hello'), TextDelta(', world'),
\* Completed([Text('Hello, world')]).
C19_TextDeltas ==
    (codec = "anthropic" /\ ~Panicked) =>
        LET evs == JsonPayloads(Consumed)
            starts == SelectSeq(evs, LAMBDA e : e.type = "content_block_start")
        IN  /\ DeltaContents(returned) = TextDeltaTexts(evs)
            /\ Len(Events) =
                   Len(TextDeltaTexts(evs)) + (IF stream.done THEN 1 ELSE 0)
            /\ ~stream.done =>
                   /\ Len(stream.blocks) = Len(starts)
                   /\ \A k \in 1..Len(stream.blocks) :
                          IF stream.blocks[k].type = "Text"
                          THEN stream.blocks[k].text =
                                  starts[k].content_block.text
                                      \o AnthropicBlockText(evs, k - 1)
                          ELSE stream.blocks[k].input_json =
                                  AnthropicBlockJson(evs, k - 1)
            /\ Wire = HelloWire =>
                   \A i \in Calls : returned[i] = HelloReturn(i)

\* C19 witness: the scenario, read to its Completed event.
C19_Witness ==
    /\ codec = "anthropic"
    /\ Wire = HelloWire
    /\ Len(returned) = 3
    /\ returned[3] = Completed(<<OutputText(Hello \o CommaWorld)>>)

-----------------------------------------------------------------------------
(* C20: Llms::request and the configured providers.                        *)

\* The providers whose own model enum has the model.
Owners(model) == {p \in Codecs : model \in ProviderModels(p)}

\* C20: for every Model and every configuration, a request on a model
\* whose provider has no key returns LlmNotConfigured, with no provider's
\* request called and no HTTP request made; with the key, the request of
\* that provider alone is called, and whatever is posted goes to that
\* provider's host with that provider's key.
C20_NotConfiguredFailsFast ==
    llms # None =>
        \A i \in 1..Len(requested) :
            LET r == requested[i] IN
            /\ Cardinality(Owners(r.req.model)) = 1
            /\ \A p \in Owners(r.req.model) :
                   IF llms[1].inner[p] = None
                   THEN /\ r.res = LlmNotConfigured(ProviderName(p))
                        /\ r.invoked = <<>>
                        /\ r.posts = <<>>
                   ELSE /\ r.invoked = <<p>>
                        /\ r.res.type # "Panic"
                        /\ r.res.type = "Err" =>
                               r.res.kind # "LlmNotConfigured"
                        /\ r.res.type = "Stream" => r.res.inner = p
                        /\ \A k \in 1..Len(r.posts) :
                               r.posts[k] =
                                   [host |-> Endpoint(p),
                                    api_key |-> llms[1].inner[p][1].api_key]

\* C20 witness: every key but xAI's is configured, and a request on a Grok
\* model has returned LlmNotConfigured with nothing called or posted.
C20_Witness ==
    /\ llms # None
    /\ \A p \in Codecs : (llms[1].inner[p] = None) <=> (p = "xai")
    /\ Len(requested) = 1
    /\ requested[1].req.model = "Grok4_1Fast"
    /\ requested[1].res = LlmNotConfigured("xAI")
    /\ requested[1].invoked = <<>>
    /\ requested[1].posts = <<>>

-----------------------------------------------------------------------------
(* C21: the dispatch of Llms::request and the model matches of the         *)
(* providers.                                                              *)

\* C21: every Model is in the arm of exactly one provider in Llms::request
\* and that provider's own match has an arm for it, so no request() call,
\* for any model, tools and network outcome, ends in the unreachable! of a
\* provider.
C21_DispatchAgrees ==
    /\ \A model \in Models :
           /\ ProviderOf(model) \in Codecs
           /\ model \in ProviderModels(ProviderOf(model))
           /\ \A p \in Codecs :
                  model \in ProviderModels(p) => p = ProviderOf(model)
    /\ \A i \in 1..Len(requested) :
           /\ requested[i].res # Panic
           /\ \A k \in 1..Len(requested[i].invoked) :
                  requested[i].req.model
                      \in ProviderModels(requested[i].invoked[k])

\* C21 witness: Mistral is configured and a request on Devstral2 went
\* through the match of Mistral and returned its stream.
C21_Witness ==
    /\ Len(requested) = 1
    /\ requested[1].req.model = "Devstral2"
    /\ requested[1].invoked = <<"mistral">>
    /\ requested[1].res = RespStream("mistral")

-----------------------------------------------------------------------------
(* The state machine of an SseResponse read directly: `stream` holds the   *)
(* reader as `inner`, `returned` is the history of what next::<T>() gave:  *)
(* None, Ok(value) or an SseError.                                         *)

\* The values of T the data: lines deserialize to.
SseValues == {"x", "y"}

SseWires ==
    {w \in SeqUpTo(CommonWire \cup {DataLine(v) : v \in SseValues}, MaxWire) :
        \A i \in 1..(Len(w) - 1) : w[i].k = "line"}

InitSse ==
    /\ codec = "sse"
    /\ \E wire \in SseWires : stream = [inner |-> SseNew(wire)]
    /\ returned = <<>>
    /\ llms = None
    /\ requested = <<>>
    /\ conversation = <<>>
    /\ sent = None
    /\ other = None

\* A call of SseResponse::next.
SseResponseNext ==
    /\ codec = "sse"
    /\ CanCall
    /\ LET r == SseNext(stream.inner) IN
       Call([s |-> [inner |-> r.sse],
             res |-> IF r.res = None THEN EndOfStream ELSE r.res[1]])

SpecSse == InitSse /\ [][SseResponseNext]_vars

-----------------------------------------------------------------------------
(* C22: Input::from(Output).                                               *)

\* The entries of the conversation that were converted from an Output.
Converted == {k \in 1..Len(conversation) : conversation[k].origin # None}

\* C22: every Output of every response the caller pushed was converted:
\* an Output::Text to an Input::Text of role Assistant with the same
\* content, an Output::ToolCall to an Input::ToolCall with the same id,
\* name, input and context (None included); never to a ToolCallOutput or
\* to a text of role User.
C22_OutputToInput ==
    \A k \in Converted :
        LET o == conversation[k].origin[1].output
            i == conversation[k].input
        IN  /\ o.type = "Text" =>
                   i = [type |-> "Text", role |-> "Assistant",
                        content |-> o.content]
            /\ o.type = "ToolCall" =>
                   /\ i.type = "ToolCall"
                   /\ DOMAIN i = {"type", "id", "name", "input", "context"}
                   /\ i.id = o.id /\ i.name = o.name
                   /\ i.input = o.input /\ i.context = o.context
            /\ i.type # "ToolCallOutput"
            /\ i.type = "Text" => i.role # "User"

\* C22 witness: a text, a tool call with a context and one without have
\* been converted.
C22_Witness ==
    /\ Len(conversation) = 3
    /\ Converted = {1, 2, 3}
    /\ conversation[1].origin[1].output.type = "Text"
    /\ conversation[2].input.type = "ToolCall"
    /\ conversation[2].input.context = Some("sig")
    /\ conversation[3].input.type = "ToolCall"
    /\ conversation[3].input.context = None

-----------------------------------------------------------------------------
(* C23: a tool call from Output to Input to the wire of a provider.        *)

\* The messages, contents or input items of a request built.
WireItems(p, body) ==
    CASE p \in ChatCodecs -> body.messages
      [] p = "anthropic" -> body.messages
      [] p = "google" -> body.contents
      [] p = "openai" -> body.input

\* The number of wire items ahead of those made of Request.input.
Lead(p, req) == IF p \in ChatCodecs /\ req.instructions # "" THEN 1 ELSE 0

\* What a wire item of provider p that holds a tool call says of the
\* call: the context is None when the item has no place for it, the id of
\* a google part is the name of its function, and the input is read back
\* from the arguments string where it is one.
WireToolCall(p, item) ==
    CASE p \in ChatCodecs ->
           LET tc == item.tool_calls[1][1] IN
           [id |-> Some(tc.id), name |-> tc.function.name,
            input |-> from_str(tc.function.arguments), context |-> None]
      [] p = "anthropic" ->
           LET b == item.content.blocks[1] IN
           [id |-> Some(b.id), name |-> b.name,
            input |-> [ok |-> TRUE, v |-> b.input], context |-> None]
      [] p = "google" ->
           LET part == item.parts[1] IN
           [id |-> Some(part.function_call.name),
            name |-> part.function_call.name,
            input |-> [ok |-> TRUE, v |-> part.function_call.args],
            context |-> part.thought_signature]
      [] p = "openai" ->
           [id |-> Some(item.call_id), name |-> item.name,
            input |-> from_str(item.arguments), context |-> None]

-----------------------------------------------------------------------------
(* C24: google tool calls and the function responses that answer them.     *)

\* The entries that are tool calls of a response decoded by google.
GoogleCalls ==
    {k \in Converted : /\ conversation[k].origin[1].codec = "google"
                       /\ conversation[k].origin[1].output.type = "ToolCall"}

\* C24: every Output::ToolCall of a response decoded by google has the
\* name of its function as id; in a request built by google every
\* ToolCallOutput is one function-response part, of role user, whose name
\* is the id and whose response is {"output": output}; so the output of a
\* tool call decoded by google is addressed to the function of that call,
\* also when the response called the function more than once.
C24_FunctionResponseName ==
    /\ \A k \in GoogleCalls :
           conversation[k].origin[1].output.id =
               conversation[k].origin[1].output.name
    /\ (sent # None /\ sent[1].provider = "google") =>
           \A k \in 1..Len(conversation) :
               LET e == conversation[k] IN
               e.input.type = "ToolCallOutput" =>
                   /\ k <= Len(sent[1].body.contents)
                   /\ sent[1].body.contents[k] =
                          [role |-> "user",
                           parts |-> <<[t |-> "FunctionResponse",
                                        function_response |->
                                            [name |-> e.input.id,
                                             response |->
                                                 [output |->
                                                     e.input.output]]]>>]
                   /\ e.answers \in GoogleCalls =>
                          sent[1].body.contents[k].parts[1]
                              .function_response.name =
                          conversation[e.answers].origin[1].output.name

\* C24 witness: a google response called lookup twice, the second call
\* was answered, and google has built the request.
C24_Witness ==
    /\ sent # None /\ sent[1].provider = "google"
    /\ Len(conversation) = 3
    /\ GoogleCalls = {1, 2}
    /\ conversation[1].input.name = conversation[2].input.name
    /\ conversation[3].answers = 2
    /\ sent[1].body.contents[3].parts[1].function_response.name = "lookup"

-----------------------------------------------------------------------------
(* C25: transport failures and deserialization failures.                   *)

\* C25: in every codec, a call that read up to a failure of read_line
\* returns LlmsError::Io or LlmsError::Reqwest, whichever the failure was,
\* a call that read up to a data: line that does not deserialize returns
\* LlmsError::Json, and no call returns one of the three otherwise.
C25_ErrorKinds ==
    [][stream'.inner.pos > stream.inner.pos =>
          LET o == stream'.inner.wire[stream'.inner.pos]
              r == returned'[Len(returned')]
          IN  /\ o = IoFailure <=> r = ErrIo
              /\ o = ReqwestFailure <=> r = ErrReqwest
              /\ o = BadLine <=> r = ErrJson]_vars

\* C25 witness: a stream gave a line that does not deserialize and then
\* failed; the calls returned the Json error and then the Io error.
C25_Witness ==
    /\ codec = "publicai"
    /\ stream.inner.wire = <<BadLine, IoFailure>>
    /\ returned = <<ErrJson, ErrIo>>

-----------------------------------------------------------------------------
(* C26, C27: the SSE frame reader.                                         *)

\* What the reader makes of a data: line other than [DONE].
SseResultOf(o) ==
    IF o.body.p = "json" THEN [type |-> "Ok", v |-> o.body.v]
    ELSE SseError("Json")

\* The results of the calls that are a value or a deserialization error.
SsePayloadResults ==
    SelectSeq(returned, LAMBDA r : r.type = "Ok" \/ r = SseError("Json"))

\* The data: lines read so far, [DONE] left out.
SsePayloadLines ==
    SelectSeq(Consumed,
              LAMBDA o : o.k = "line" /\ o.data /\ o.body.p # "done")

SseDoneLines == SelectSeq(Consumed, LAMBDA o : o = DoneLine)

SseNones == SelectSeq(returned, LAMBDA r : r = EndOfStream)

\* C26: the values and deserialization errors the reader has returned
\* are, in order, one per data: line read that is not [DONE]: the value of
\* the line, whole, or the error; the other lines gave nothing; every
\* [DONE] read gave None, and while the physical end was not reached
\* nothing else did.
C26_OneResultPerDataLine ==
    codec = "sse" =>
        /\ Len(SsePayloadResults) = Len(SsePayloadLines)
        /\ \A k \in 1..Len(SsePayloadLines) :
               SsePayloadResults[k] = SseResultOf(SsePayloadLines[k])
        /\ Len(SseNones) >= Len(SseDoneLines)
        /\ stream.inner.line => Len(SseNones) = Len(SseDoneLines)

\* C26 witness: a line without data:, a line that does not deserialize
\* and a value were read, and then the physical end, in three calls.
C26_Witness ==
    /\ codec = "sse"
    /\ Wire = <<OtherLine, BadLine, DataLine("x")>>
    /\ returned = <<SseError("Json"), [type |-> "Ok", v |-> "x"],
                    EndOfStream>>

\* C27: once a call of the reader has returned None, for [DONE] as for
\* the physical end of the stream, every later call returns None.
C27_EndIsFinal ==
    codec = "sse" =>
        \A i \in Calls : \A j \in Calls :
            (i < j /\ returned[i] = EndOfStream) =>
                returned[j] = EndOfStream

-----------------------------------------------------------------------------
(* C28: the order of Request.input on the wire.                            *)

\* What an Input is: its kind, the role of a text, and the content of a
\* text, the id and name of a tool call, the id and output of a tool
\* call output.
InputSummary(input) ==
    CASE input.type = "Text" ->
           [kind |-> "Text", role |-> input.role, id |-> "",
            text |-> input.content]
      [] input.type = "ToolCall" ->
           [kind |-> "ToolCall", role |-> "", id |-> input.id,
            text |-> input.name]
      [] input.type = "ToolCallOutput" ->
           [kind |-> "ToolCallOutput", role |-> "", id |-> input.id,
            text |-> input.output]

\* The same of the one thing a wire item of provider p holds; the kind is
\* "System" for a system message and "Other" for an item that holds none
\* or more than one.  A google part has the name of the function for id.
WireSummary(p, item) ==
    CASE p \in ChatCodecs ->
          (CASE item.role = "system" ->
                  [kind |-> "System", role |-> "", id |-> "",
                   text |-> item.content]
             [] item.role = "user" ->
                  [kind |-> "Text", role |-> "User", id |-> "",
                   text |-> item.content]
             [] item.role = "tool" ->
                  [kind |-> "ToolCallOutput", role |-> "",
                   id |-> item.tool_call_id, text |-> item.content]
             [] item.role = "assistant" ->
                  IF item.content # None /\ item.tool_calls = None
                  THEN [kind |-> "Text", role |-> "Assistant", id |-> "",
                        text |-> item.content[1]]
                  ELSE IF /\ item.content = None /\ item.tool_calls # None
                          /\ Len(item.tool_calls[1]) = 1
                  THEN [kind |-> "ToolCall", role |-> "",
                        id |-> item.tool_calls[1][1].id,
                        text |-> item.tool_calls[1][1].function.name]
                  ELSE [kind |-> "Other", role |-> "", id |-> "",
                        text |-> ""])
      [] p = "anthropic" ->
           IF item.content.t = "Text"
           THEN [kind |-> "Text",
                 role |-> (IF item.role = "user" THEN "User"
                           ELSE "Assistant"),
                 id |-> "", text |-> item.content.text]
           ELSE IF Len(item.content.blocks) # 1
           THEN [kind |-> "Other", role |-> "", id |-> "", text |-> ""]
           ELSE LET b == item.content.blocks[1] IN
                IF b.type = "tool_use"
                THEN [kind |-> "ToolCall", role |-> "", id |-> b.id,
                      text |-> b.name]
                ELSE [kind |-> "ToolCallOutput", role |-> "",
                      id |-> b.tool_use_id, text |-> b.content]
      [] p = "google" ->
           IF Len(item.parts) # 1
           THEN [kind |-> "Other", role |-> "", id |-> "", text |-> ""]
           ELSE LET part == item.parts[1] IN
               (CASE part.t = "Text" ->
                       [kind |-> "Text",
                        role |-> (IF item.role = "user" THEN "User"
                                  ELSE "Assistant"),
                        id |-> "", text |-> part.text]
                  [] part.t = "FunctionCall" ->
                       [kind |-> "ToolCall", role |-> "",
                        id |-> part.function_call.name,
                        text |-> part.function_call.name]
                  [] part.t = "FunctionResponse" ->
                       [kind |-> "ToolCallOutput", role |-> "",
                        id |-> part.function_response.name,
                        text |-> part.function_response.response.output])
      [] p = "openai" ->
          (CASE item.type = "message" ->
                  [kind |-> "Text",
                   role |-> (IF item.role = "user" THEN "User"
                             ELSE "Assistant"),
                   id |-> "", text |-> item.content]
             [] item.type = "function_call" ->
                  [kind |-> "ToolCall", role |-> "", id |-> item.call_id,
                   text |-> item.name]
             [] item.type = "function_call_output" ->
                  [kind |-> "ToolCallOutput", role |-> "",
                   id |-> item.call_id, text |-> item.output])

\* An Input as a wire item of provider p tells it: google puts no id of
\* the tool call on the wire.
SummaryFor(p, input) ==
    IF p = "google" /\ input.type = "ToolCall"
    THEN [InputSummary(input) EXCEPT !.id = input.name]
    ELSE InputSummary(input)

\* C28: the request a provider built has one wire item per Input of the
\* conversation, in the order of the conversation, each holding that one
\* Input; in the Chat-Completions providers instructions that are not
\* empty are one system message ahead of them, empty instructions are no
\* message, and no other provider adds an item.
C28_InputOrder ==
    sent # None =>
        LET p == sent[1].provider
            req == sent[1].req
            items == WireItems(p, sent[1].body)
            lead == Len(items) - Len(conversation)
        IN  /\ lead = (IF p \in ChatCodecs /\ req.instructions # ""
                       THEN 1 ELSE 0)
            /\ lead = 1 =>
                   items[1] = [role |-> "system",
                               content |-> req.instructions]
            /\ \A k \in 1..Len(conversation) :
                   WireSummary(p, items[k + lead]) =
                       SummaryFor(p, conversation[k].input)

\* C28 witness: xai built the request of a conversation of a user's text,
\* a tool call and its output, with instructions.
C28_Witness ==
    /\ sent # None /\ sent[1].provider = "xai"
    /\ sent[1].req.instructions = "be brief"
    /\ Len(conversation) = 3
    /\ conversation[1].input.type = "Text"
    /\ conversation[2].input.type = "ToolCall"
    /\ conversation[3].input.type = "ToolCallOutput"
    /\ Len(sent[1].body.messages) = 4
    /\ sent[1].body.messages[1].role = "system"
    /\ sent[1].body.messages[4].role = "tool"

-----------------------------------------------------------------------------
(* C29: mistral deltas whose content is a list of typed blocks.            *)

\* The text of the text blocks of the content of a mistral chunk, in
\* order: of its first choice, the only one read.
MistralChunkText(chunk) ==
    IF chunk.choices = <<>> \/ chunk.choices[1].delta.content = None
    THEN EmptyString
    ELSE LET content == chunk.choices[1].delta.content[1] IN
         IF content.t = "Text" THEN content.s
         ELSE LET kept == SelectSeq(content.blocks,
                                    LAMBDA b : b.type = "text")
              IN  Concat([k \in 1..Len(kept) |-> kept[k].text])

\* The texts of the chunks read that have any, chunk by chunk.
MistralTexts ==
    LET chunks == JsonPayloads(Consumed)
        texts == [k \in 1..Len(chunks) |-> MistralChunkText(chunks[k])]
    IN  SelectSeq(texts, LAMBDA t : t # EmptyString)

\* The characters of the thinking blocks of the chunks read.
ThinkingChars ==
    UNION {UNION {Range(b.text) :
                    b \in {b \in Range(v.choices[1].delta.content[1].blocks) :
                              b.type = "thinking"}} :
           v \in {v \in Range(JsonPayloads(Consumed)) :
                     /\ v.choices # <<>>
                     /\ v.choices[1].delta.content # None
                     /\ v.choices[1].delta.content[1].t = "Blocks"}}

\* C29: the TextDelta events of a mistral stream are, in order, one per
\* chunk read whose text blocks (or string content) have text, with that
\* text; a chunk of thinking blocks only gives no event; the accumulated
\* text and the Output::Text of the Completed event are these texts
\* concatenated, none when there are none; and no character of a
\* thinking block is in any of them.
C29_ThinkingDiscarded ==
    codec = "mistral" =>
        /\ DeltaContents(returned) = MistralTexts
        /\ ~stream.done =>
               stream.text = (IF MistralTexts = <<>> THEN None
                              ELSE Some(Concat(MistralTexts)))
        /\ \A i \in Calls :
               /\ returned[i].type = "TextDelta" =>
                      Range(returned[i].content) \cap ThinkingChars = {}
               /\ returned[i].type = "Completed" =>
                      LET texts == SelectSeq(returned[i].output,
                                             LAMBDA o : o.type = "Text")
                      IN  /\ texts = (IF MistralTexts = <<>> THEN <<>>
                                      ELSE <<OutputText(
                                               Concat(MistralTexts))>>)
                          /\ \A k \in 1..Len(texts) :
                                 Range(texts[k].content) \cap ThinkingChars
                                     = {}

\* C29 witness: a chunk of a thinking and a text block, then a chunk of a
\* thinking block only, gave one TextDelta and the Completed text.
C29_Witness ==
    /\ codec = "mistral"
    /\ Wire =
          <<DataLine(Chunk(<<ChunkChoice(Some(DeltaContentBlocks(
              <<ContentBlockThinking(<<"t">>), ContentBlockText(<<"b">>)>>)),
              None)>>)),
            DataLine(Chunk(<<ChunkChoice(Some(DeltaContentBlocks(
              <<ContentBlockThinking(<<"t">>)>>)), None)>>))>>
    /\ returned = <<TextDelta(<<"b">>), Completed(<<OutputText(<<"b">>)>>)>>

-----------------------------------------------------------------------------
(* C30: the output items of an openai completed payload.                   *)

\* The items of a payload are all of completed status, and the arguments
\* of its function calls are JSON.
ItemsConvert(items) ==
    \A k \in 1..Len(items) :
        /\ items[k].type = "message" => items[k].status = "completed"
        /\ items[k].type = "function_call" =>
               /\ items[k].status = Some("completed")
               /\ from_str(items[k].arguments).ok

\* The Output of a message or function_call item.
ItemOutput(item) ==
    IF item.type = "message"
    THEN LET parts == SelectSeq(item.content,
                                LAMBDA c : c.type \in {"output_text",
                                                       "refusal"})
         IN  OutputText(Concat([j \in 1..Len(parts) |-> parts[j].text]))
    ELSE OutputToolCall(item.call_id, item.name,
                        from_str(item.arguments).v, None)

\* The outputs of the items of a payload: none for a reasoning item, one
\* for every other item, in the order of the items.
ItemsOutput(items) ==
    LET kept == SelectSeq(items, LAMBDA o : o.type # "reasoning")
    IN  [k \in 1..Len(kept) |-> ItemOutput(kept[k])]

\* The response.completed payloads read that are of completed status and
\* whose items convert, in order.
CompletedPayloads ==
    SelectSeq(JsonPayloads(Consumed),
              LAMBDA v : /\ v.type = "response.completed"
                         /\ v.response.status = "completed"
                         /\ ItemsConvert(v.response.output))

\* C30: the Completed events of an openai stream are, in order, one per
\* response.completed payload read whose status and item statuses are
\* completed and whose arguments parse, and the output of each is one
\* Output per message or function_call item in item order, none for a
\* reasoning item: a Text of the message's output_text and refusal
\* sub-parts concatenated in order, however many there are, and a
\* ToolCall of the call_id, the name and the parsed arguments.
C30_ItemsToOutputs ==
    codec = "openai" =>
        LET completed == SelectSeq(returned,
                                   LAMBDA e : e.type = "Completed")
            payloads == CompletedPayloads
        IN  /\ Len(completed) = Len(payloads)
            /\ \A k \in 1..Len(payloads) :
                   completed[k].output =
                       ItemsOutput(payloads[k].response.output)

\* C30 witness: a payload of a function call, a message of an output_text,
\* a reasoning_text and a refusal sub-part, and a reasoning item gave the
\* ToolCall and then the Text of the two sub-parts.
C30_Witness ==
    /\ codec = "openai"
    /\ Wire = <<DataLine(ResponseCompleted(
                  <<FunctionCall("c1", "lookup", <<"{", "}">>,
                                 Some("completed")),
                    OutputMessage("completed",
                                  <<ContentOutputText(<<"a">>),
                                    ContentReasoningText(<<"t">>),
                                    ContentRefusal(<<"n", "o">>)>>),
                    ReasoningItem>>,
                  "completed"))>>
    /\ returned = <<Completed(<<OutputToolCall("c1", "lookup", <<"o">>, None),
                                OutputText(<<"a", "n", "o">>)>>)>>

-----------------------------------------------------------------------------
(* Two response streams and the callers' next() calls on them, in any      *)
(* order: `codec`, `stream`, `returned` are the first stream and its       *)
(* history, `other` holds the same three of the second.                    *)

\* Longest transport of a stream of the pair.
MaxPairWire == 2

\* next() calls on a stream of the pair.
MaxPairCalls == 3

\* The payloads of the streams of the pair.
PairPayloads(c) ==
    CASE c \in {"xai", "publicai"} ->
           {Chunk(<<ChunkChoice(Some(<<"a">>), None)>>),
            ToolTextChunk(0, Some("abc"), Some("lookup"), Some(<<"{", "}">>),
                          <<"b">>)}
      [] c = "mistral" ->
           {Chunk(<<ChunkChoice(Some(DeltaContentText(<<"a">>)), None)>>),
            ToolTextChunk(0, Some("abc"), Some("lookup"), Some(<<"{", "}">>),
                          DeltaContentText(<<"b">>))}
      [] c = "anthropic" ->
           {ContentBlockStart(0, StartText(<<"x">>)),
            ContentBlockDelta(0, ContentTextDelta(<<"a">>)),
            MessageStop}
      [] c = "google" ->
           {StreamChunk(<<Candidate(Some(CandidateContent(
                           <<PartText(<<"a">>)>>)))>>, None),
            StreamChunk(<<Candidate(Some(CandidateContent(
                           <<PartFunctionCall("lookup", <<"o">>,
                                              Some("sig"))>>)))>>, None)}
      [] c = "openai" ->
           {ResponseOutputTextDelta(<<"a">>),
            ResponseCompleted(
               <<OutputMessage("completed",
                               <<ContentOutputText(<<"a", "b">>)>>)>>,
               "completed"),
            ResponseCompleted(
               <<FunctionCall("c1", "lookup", <<"{", "}">>,
                              Some("completed"))>>,
               "completed")}

PairWires(c) ==
    SeqUpTo({DataLine(v) : v \in PairPayloads(c)}, MaxPairWire)

\* A stream as its request returned it, and no call on it yet.
Owned(c, wire) ==
    [codec |-> c, stream |-> NewStream(c, wire), returned |-> <<>>]

\* A stream after a next() call on another stream returned r, were the
\* position in the transport one that the two streams share.
KeptSharedPosition(o, r) ==
    [o EXCEPT !.stream.inner.pos =
                  IF r.s.inner.pos < Len(o.stream.inner.wire)
                  THEN r.s.inner.pos ELSE Len(o.stream.inner.wire)]

\* A stream after a next() call on another stream returned r: next takes
\* &mut self, the streams are structs that own what they hold, and the
\* crate has no static, so the stream is as it was.
Kept(o, r) == o

\* A next() call on a stream of the pair.
OwnedCall(o) ==
    LET r == CodecNext(o.codec, o.stream)
    IN  [o EXCEPT !.stream = r.s, !.returned = Append(@, r.res)]

InitPair ==
    /\ codec \in Codecs
    /\ \E wire \in PairWires(codec) : stream = NewStream(codec, wire)
    /\ returned = <<>>
    /\ llms = None
    /\ requested = <<>>
    /\ conversation = <<>>
    /\ sent = None
    /\ \E c \in Codecs : \E wire \in PairWires(c) : other = Owned(c, wire)

\* A call on the first stream.
FirstNext ==
    /\ Len(returned) < MaxPairCalls
    /\ ~Panicked
    /\ LET r == CodecNext(codec, stream)
       IN  /\ stream' = r.s
           /\ returned' = Append(returned, r.res)
           /\ other' = Kept(other, r)
    /\ UNCHANGED <<codec, llms, requested, conversation, sent>>

\* A call on the second stream.
OtherNext ==
    /\ Len(other.returned) < MaxPairCalls
    /\ IF other.returned = <<>> THEN TRUE
       ELSE other.returned[Len(other.returned)].type # "Panic"
    /\ LET first == Kept([codec |-> codec, stream |-> stream,
                          returned |-> returned],
                         CodecNext(other.codec, other.stream))
       IN  /\ other' = OwnedCall(other)
           /\ stream' = first.stream
           /\ returned' = first.returned
    /\ UNCHANGED <<codec, llms, requested, conversation, sent>>

NextPair == FirstNext \/ OtherNext

SpecPair == InitPair /\ [][NextPair]_vars

-----------------------------------------------------------------------------
(* C31: independent streams.                                               *)

RECURSIVE Alone(_, _)
\* A stream of the pair after n next() calls with no other stream by it.
Alone(o, n) == IF n = 0 THEN o ELSE OwnedCall(Alone(o, n - 1))

-----------------------------------------------------------------------------
(* C32: tool calls left unanswered.                                        *)

\* A history in which a ToolCall is followed at once by a Text, and no
\* ToolCallOutput of the id of the call comes anywhere after it.
UnansweredToolCall(input) ==
    \E k \in 1..(Len(input) - 1) :
        /\ input[k].type = "ToolCall"
        /\ input[k + 1].type = "Text"
        /\ \A j \in (k + 1)..Len(input) :
               ~(input[j].type = "ToolCallOutput" /\ input[j].id = input[k].id)

\* C32: a history in which a ToolCall is followed at once by a Text and
\* is never answered is found malformed before it is sent: no provider
\* request is built of it.  Neither Llms::request nor a provider's
\* request looks at the order of Request.input.
C32_UnansweredRejected ==
    sent # None => ~UnansweredToolCall(sent[1].req.input)

-----------------------------------------------------------------------------
(* C33: the openai Completed response and the deltas before it.            *)

\* Call i on an openai stream of the pair read line i of its wire: every
\* payload of these streams makes next return.
ReadCompleted(o, i) ==
    /\ o.codec = "openai"
    /\ i <= Len(o.returned)
    /\ i <= Len(o.stream.inner.wire)
    /\ o.stream.inner.wire[i].body.v.type = "response.completed"

\* C33: two openai streams whose calls read the same response.completed
\* payload, after whatever text deltas each of them forwarded, returned
\* the same from these calls: the Completed response is a function of
\* that payload alone, and the stream holds its transport and no
\* accumulator.
C33_CompletedOfPayloadOnly ==
    /\ codec = "openai" => DOMAIN stream = {"inner"}
    /\ \A i, j \in 1..MaxPairCalls :
          LET first == [codec |-> codec, stream |-> stream,
                        returned |-> returned]
          IN  (/\ ReadCompleted(first, i)
               /\ ReadCompleted(other, j)
               /\ Wire[i] = other.stream.inner.wire[j])
              => returned[i] = other.returned[j]

\* C33 witness: one stream forwarded the delta "a" and then the payload
\* of text "ab", the other read the same payload and no delta; both
\* returned the Completed of "ab".
C33_Witness ==
    /\ codec = "openai"
    /\ other.codec = "openai"
    /\ returned = <<TextDelta(<<"a">>),
                    Completed(<<OutputText(<<"a", "b">>)>>)>>
    /\ other.returned = <<Completed(<<OutputText(<<"a", "b">>)>>)>>
    /\ Wire[2] = other.stream.inner.wire[1]

-----------------------------------------------------------------------------
(* C34: the text buffers and the TextDelta events.                         *)

\* The text of a chunk of a Chat-Completions stream: of the content of
\* its first choice.
ChatChunkText(chunk) ==
    IF codec = "mistral" THEN MistralChunkText(chunk)
    ELSE IF chunk.choices = <<>> \/ chunk.choices[1].delta.content = None
    THEN EmptyString
    ELSE chunk.choices[1].delta.content[1]

\* The text of a chunk of a google stream: of the text parts of its
\* first candidate, in order.
GoogleChunkText(chunk) ==
    IF chunk.candidates = <<>> \/ chunk.candidates[1].content = None
    THEN EmptyString
    ELSE LET parts == SelectSeq(chunk.candidates[1].content[1].parts,
                                LAMBDA part : part.t = "Text")
         IN  Concat([k \in 1..Len(parts) |-> parts[k].text])

\* The texts of the chunks read that have any, one of each chunk.
ChunkTexts ==
    LET chunks == JsonPayloads(Consumed)
        texts == [k \in 1..Len(chunks) |->
                    IF codec = "google" THEN GoogleChunkText(chunks[k])
                    ELSE ChatChunkText(chunks[k])]
    IN  SelectSeq(texts, LAMBDA t : t # EmptyString)

\* The text buffer of a Chat-Completions or google stream.
TextBuffer == IF codec = "google" THEN stream.text_acc ELSE stream.text

\* The content_block_start events read, in order.
Starts ==
    SelectSeq(JsonPayloads(Consumed),
              LAMBDA ev : ev.type = "content_block_start")

\* The texts of the text deltas read, in order.
ReadTextDeltas ==
    LET deltas == SelectSeq(JsonPayloads(Consumed),
                            LAMBDA ev : /\ ev.type = "content_block_delta"
                                        /\ ev.delta.type = "text_delta")
    IN  [k \in 1..Len(deltas) |-> deltas[k].delta.text]

\* The text of the k-th block started, a text block: the text of its
\* start and then of the text deltas read that state index k - 1.
BlockText(k) ==
    LET deltas == SelectSeq(JsonPayloads(Consumed),
                            LAMBDA ev : /\ ev.type = "content_block_delta"
                                        /\ ev.delta.type = "text_delta"
                                        /\ ev.index = k - 1)
    IN  Starts[k].content_block.text
            \o Concat([j \in 1..Len(deltas) |-> deltas[j].delta.text])

\* The texts of the text blocks started, in order, the empty ones left
\* out.
BlockTexts ==
    LET started == SelectSeq([k \in 1..Len(Starts) |-> k],
                             LAMBDA k : Starts[k].content_block.type = "text")
        texts == [j \in 1..Len(started) |-> BlockText(started[j])]
    IN  SelectSeq(texts, LAMBDA t : t # EmptyString)

\* No call on the stream has panicked.
NoPanic == \A i \in Calls : returned[i].type # "Panic"

\* C34: in a Chat-Completions or google stream not yet finalized the
\* text buffer is the concatenation of the TextDelta events returned,
\* and is absent exactly when there is none; these events are one per
\* chunk read that has text, with all the text of the chunk, and none
\* is empty.  In an anthropic stream the buffer of a text block is the
\* text of its start and then its deltas; the TextDelta events are the
\* deltas alone, and the texts of the Completed event are the buffers.
C34_BufferIsDeltas ==
    /\ (codec \in ChatCodecs \cup {"google"} /\ ~stream.done) =>
           /\ TextBuffer = (IF DeltaContents(returned) = <<>> THEN None
                            ELSE Some(DeltaString))
           /\ DeltaContents(returned) = ChunkTexts
           /\ \A i \in Calls : returned[i].type = "TextDelta" =>
                  returned[i].content # EmptyString
    /\ (codec = "anthropic" /\ NoPanic) =>
           /\ DeltaContents(returned) = ReadTextDeltas
           /\ ~stream.done =>
                  /\ Len(stream.blocks) = Len(Starts)
                  /\ \A k \in 1..Len(stream.blocks) :
                         stream.blocks[k].type = "Text" =>
                             stream.blocks[k].text = BlockText(k)
           /\ \A i \in Calls : returned[i].type = "Completed" =>
                  LET texts == SelectSeq(returned[i].output,
                                         LAMBDA o : o.type = "Text")
                  IN  [k \in 1..Len(texts) |-> texts[k].content]
                          = BlockTexts

\* C34 witness: an anthropic text block started with the text "x" and
\* got the delta "a": the one TextDelta is "a", the Completed text "xa".
C34_Witness ==
    /\ codec = "anthropic"
    /\ Wire = <<DataLine(ContentBlockStart(0, StartText(<<"x">>))),
                DataLine(ContentBlockDelta(0, ContentTextDelta(<<"a">>))),
                DataLine(MessageStop)>>
    /\ returned = <<TextDelta(<<"a">>),
                    Completed(<<OutputText(<<"x", "a">>)>>)>>

-----------------------------------------------------------------------------
(* C35: the order of the Completed output.                                 *)

\* The deltas that make slot i of a Chat-Completions stream: those
\* addressed to i since the last delta addressed below i, which cut the
\* slots down to its own.
SlotDeltas(deltas, i) ==
    LET lower == {j \in 1..Len(deltas) : deltas[j].index < i}
        from == IF lower = {} THEN 0
                ELSE CHOOSE j \in lower : \A k \in lower : k <= j
    IN  SelectSeq(SubSeq(deltas, from + 1, Len(deltas)),
                  LAMBDA d : d.index = i)

\* The tool call of slot i: the id and the name given last, and the
\* argument fragments in order, parsed.
SlotToolCall(deltas, i) ==
    LET ds == SlotDeltas(deltas, i)
        ids == SelectSeq(ds, LAMBDA d : d.id # None)
        names == SelectSeq(ds, LAMBDA d : /\ d.function # None
                                          /\ d.function[1].name # None)
        frags == SelectSeq(ds, LAMBDA d : /\ d.function # None
                                          /\ d.function[1].arguments # None)
    IN  OutputToolCall(
            IF ids = <<>> THEN "" ELSE ids[Len(ids)].id[1],
            IF names = <<>> THEN "" ELSE names[Len(names)].function[1].name[1],
            from_str(Concat([k \in 1..Len(frags) |->
                               frags[k].function[1].arguments[1]])).v,
            None)

\* The tool calls of a Chat-Completions stream in the order of the slot
\* indexes: the last delta leaves the slots up to its own.
ChatToolCalls ==
    LET deltas == ConsumedDeltas
    IN  IF deltas = <<>> THEN <<>>
        ELSE [k \in 1..(deltas[Len(deltas)].index + 1) |->
                SlotToolCall(deltas, k - 1)]

RECURSIVE PartsOf(_)
\* The parts of the first candidates of google chunks, in order.
PartsOf(chunks) ==
    IF chunks = <<>> THEN <<>>
    ELSE (IF Head(chunks).candidates = <<>>
             \/ Head(chunks).candidates[1].content = None
          THEN <<>>
          ELSE Head(chunks).candidates[1].content[1].parts)
         \o PartsOf(Tail(chunks))

\* The tool calls of a google stream in the order the function-call
\* parts arrived.
GoogleToolCalls ==
    LET parts == SelectSeq(PartsOf(JsonPayloads(Consumed)),
                           LAMBDA part : part.t = "FunctionCall")
    IN  [k \in 1..Len(parts) |->
           OutputToolCall(parts[k].function_call.name,
                          parts[k].function_call.name,
                          parts[k].function_call.args,
                          parts[k].thought_signature)]

\* C35: the output of the Completed event of a Chat-Completions or
\* google stream is the text first, when any chunk read had text, and
\* then the tool calls, in the order of the slot indexes
\* (Chat-Completions) or of arrival (google), wherever in the stream the
\* text came; the text and the tool-call data of one chunk are both in.
C35_TextFirst ==
    codec \in ChatCodecs \cup {"google"} =>
        \A i \in Calls : returned[i].type = "Completed" =>
            returned[i].output =
                (IF ChunkTexts = <<>> THEN <<>>
                 ELSE <<OutputText(Concat(ChunkTexts))>>)
                \o (IF codec = "google" THEN GoogleToolCalls
                    ELSE ChatToolCalls)

\* C35 witness: tool-call data came first, and then a chunk of more of
\* it and of text; the Completed output has the text and then the call.
C35_Witness ==
    /\ codec = "xai"
    /\ Wire = <<DataLine(ToolChunk(0, Some("abc"), Some("lookup"), None)),
                DataLine(ToolTextChunk(0, None, None, Some(<<"{", "}">>),
                                       <<"b">>))>>
    /\ returned = <<TextDelta(<<"b">>),
                    Completed(<<OutputText(<<"b">>),
                                OutputToolCall("abc", "lookup", <<"o">>,
                                               None)>>)>>

-----------------------------------------------------------------------------
(* C36: slots of empty arguments.                                          *)

\* The argument string of slot i: the fragments addressed to it.
SlotArguments(deltas, i) ==
    LET frags == SelectSeq(SlotDeltas(deltas, i),
                           LAMBDA d : /\ d.function # None
                                      /\ d.function[1].arguments # None)
    IN  Concat([k \in 1..Len(frags) |-> frags[k].function[1].arguments[1]])

\* The indexes of the slots of the stream.
SlotIndexes ==
    IF ConsumedDeltas = <<>> THEN {}
    ELSE 0..ConsumedDeltas[Len(ConsumedDeltas)].index

\* C36: in a Chat-Completions stream a slot that no delta addressed,
\* below the index of a delta, is there with empty id, name and
\* arguments; and when the stream ends with a slot of empty arguments,
\* skipped or sent no fragment, the call that ends it returns the
\* invalid-arguments error and no Completed event is returned.
C36_EmptyArgumentsFail ==
    codec \in ChatCodecs =>
        /\ ~stream.done =>
               /\ Len(stream.tool_calls) = Cardinality(SlotIndexes)
               /\ \A i \in SlotIndexes :
                      SlotDeltas(ConsumedDeltas, i) = <<>> =>
                          stream.tool_calls[i + 1] =
                              [id |-> "", name |-> "",
                               arguments |-> EmptyString]
        /\ (/\ stream.done
            /\ \E i \in SlotIndexes :
                   SlotArguments(ConsumedDeltas, i) = EmptyString) =>
               /\ LastEvent.type = "Err"
               /\ LastEvent.kind = "Response"
               /\ LastEvent.status = StatusOk
               /\ LastEvent.body[1] = "invalid tool call arguments JSON for"
               /\ \A i \in Calls : returned[i].type # "Completed"

\* C36 witness: the one delta of the stream addressed index 1; slot 0 was
\* made empty and the stream ended in the error that names it.
C36_Witness ==
    /\ codec = "xai"
    /\ Wire = <<DataLine(ToolChunk(1, Some("def"), Some("calc"),
                                   Some(<<"{", "}">>)))>>
    /\ returned = <<ErrResponse(StatusOk,
                                <<"invalid tool call arguments JSON for",
                                  "">>)>>

-----------------------------------------------------------------------------
(* C37: the list of anthropic block accumulators.                          *)

\* The partial_json of the deltas read that state index i, in order.
BlockJson(i) ==
    LET deltas == SelectSeq(JsonPayloads(Consumed),
                            LAMBDA ev : /\ ev.type = "content_block_delta"
                                        /\ ev.delta.type = "input_json_delta"
                                        /\ ev.index = i)
    IN  Concat([j \in 1..Len(deltas) |-> deltas[j].delta.partial_json])

\* C37: in an anthropic stream that has not ended, the accumulator at
\* position k (from 0) is the one of the start event that k start events
\* came before, whatever index that event stated; a content_block_stop
\* takes none away; and it holds what the deltas of index k gave it.
C37_ArrivalOrder ==
    (codec = "anthropic" /\ NoPanic /\ ~stream.done) =>
        /\ Len(stream.blocks) = Len(Starts)
        /\ \A k \in 1..Len(stream.blocks) :
               LET content_block == Starts[k].content_block IN
               IF content_block.type = "text"
               THEN stream.blocks[k] = [type |-> "Text", text |-> BlockText(k)]
               ELSE stream.blocks[k] =
                        [type |-> "ToolUse", id |-> content_block.id,
                         name |-> content_block.name,
                         input_json |-> BlockJson(k - 1)]

\* C37 witness: the first start event stated index 1, a stop event came,
\* and the delta of index 0 went to the block of that start.
C37_Witness ==
    /\ codec = "anthropic"
    /\ Wire = <<DataLine(ContentBlockStart(1, StartToolUse("tu", "lookup"))),
                DataLine(ContentBlockStop(0)),
                DataLine(ContentBlockDelta(0, InputJsonDelta(<<"{">>)))>>
    /\ returned = <<EndOfStream>>
    /\ stream.blocks = <<AccToolUse("tu", "lookup", <<"{">>)>>

-----------------------------------------------------------------------------
(* C38: PublicAI and tools.                                                *)

\* The requests made on the model of PublicAI with its key configured.
PublicAiRequests ==
    IF llms = None \/ llms[1].inner["publicai"] = None THEN <<>>
    ELSE SelectSeq(requested, LAMBDA r : r.req.model = "Apertus8bInstruct")

\* LlmsError::Response of status 200 with the message of PublicAI.
ToolsNotSupported ==
    [type |-> "Err", kind |-> "Response", status |-> StatusOk,
     body |-> <<"tools are not supported by the PublicAI API">>]

\* C38: a request on the model of PublicAI that has tools returns the
\* Response error of status 200 that says tools are not supported, with
\* no HTTP request made; one that has no tools makes its HTTP request,
\* to PublicAI's host.
C38_PublicAiToolsRejected ==
    \A i \in 1..Len(PublicAiRequests) :
        LET r == PublicAiRequests[i] IN
        /\ r.invoked = <<"publicai">>
        /\ IF r.req.tools
           THEN /\ r.posts = <<>>
                /\ r.res = ToolsNotSupported
           ELSE /\ Len(r.posts) = 1
                /\ r.posts[1].host = "api.publicai.co"
                /\ r.res # ToolsNotSupported

\* C38 witness: a request with tools on Apertus8bInstruct, the key of
\* PublicAI configured, was turned down with nothing posted.
C38_Witness ==
    /\ Len(PublicAiRequests) = 1
    /\ PublicAiRequests[1].req.tools
    /\ PublicAiRequests[1].posts = <<>>
    /\ PublicAiRequests[1].res.type = "Err"

-----------------------------------------------------------------------------
(* The caller's drain loop: `while let Some(..) = stream.next().await`     *)
(* calls next() again for as long as no call has returned None.            *)

DrainNext ==
    /\ \A i \in Calls : returned[i].type # "None"
    /\ Next

\* The loop body has no other exit: while the loop is not over, the next
\* call is eventually made.
SpecDrain == Init /\ [][DrainNext]_vars /\ WF_vars(DrainNext)

-----------------------------------------------------------------------------
(* C39: draining terminates.                                               *)

\* The loop is over: a call returned None, or panicked.
DrainOver == \E i \in Calls : returned[i].type \in {"None", "Panic"}

\* C39: for every codec and every wire, a call of the drain loop reads
\* no more entries of the transport than are left, and it reads at least
\* one unless none is left or it returns None; the calls made are at most
\* two more than the transport has entries; and a loop that is not over,
\* no call having returned None or panicked, has made fewer calls than
\* that and makes its next one.  So the loop is over after finitely many
\* calls, each of finitely many reads.
C39_DrainTerminates ==
    /\ [][/\ stream'.inner.pos \in stream.inner.pos..Len(Wire)
          /\ \/ stream'.inner.pos > stream.inner.pos
             \/ stream.inner.pos = Len(Wire)
             \/ returned'[Len(returned')] = EndOfStream]_vars
    /\ [](Len(returned) <= Len(Wire) + 2)
    /\ [](~DrainOver => Len(returned) < Len(Wire) + 2 /\ CanCall)

\* C39 witness: a transport of three chunks of text was drained with five
\* calls: three TextDelta events, Completed, None.
C39_Witness ==
    /\ codec = "xai"
    /\ Wire = <<DataLine(Chunk(<<ChunkChoice(Some(<<"a">>), None)>>)),
                DataLine(Chunk(<<ChunkChoice(Some(<<"b">>), None)>>)),
                DataLine(Chunk(<<ChunkChoice(Some(<<"a">>), None)>>))>>
    /\ Len(returned) = 5
    /\ returned[4] = Completed(<<OutputText(<<"a", "b", "a">>)>>)
    /\ returned[5] = EndOfStream

====
